---------------------------- MODULE Spec2Model ----------------------------
(***************************************************************************)
(* A model of the sixel stream encoder of icy_sixel                        *)
(* (src/src/output/mod.rs): the packet buffer, the run-length encoder,     *)
(* the band tile builder and scheduler, the header and footer, the         *)
(* high-colour adaptive encoder and the encode orchestrator.               *)
(*                                                                         *)
(* Bytes are integers 0..255; a Rust String is the sequence of its UTF-8   *)
(* bytes; the sink (fn_write) is the sequence of the writes it received.   *)
(***************************************************************************)
EXTENDS Integers, Sequences, FiniteSets, TLC

VARIABLES
    buffer,                 \* SixelOutput.buffer
    sink,                   \* what fn_write received, one entry per write
    panicked,               \* a Rust panic unwound the call in progress
    save_pixel,             \* SixelOutput.save_pixel
    save_count,             \* SixelOutput.save_count
    active_palette,         \* SixelOutput.active_palette
    nodes,                  \* SixelOutput.nodes
    has_8bit_control,       \* SixelOutput.has_8bit_control
    has_gri_arg_limit,      \* SixelOutput.has_gri_arg_limit
    skip_dcs_envelope,      \* SixelOutput.skip_dcs_envelope
    penetrate_multiplexer,  \* SixelOutput.penetrate_multiplexer
    encode_policy,          \* SixelOutput.encode_policy
    palette_type,           \* SixelOutput.palette_type
    pc,                     \* the position of the call in progress
    args,                   \* the arguments of the call in progress
    body,                   \* the locals of encode_body
    hc,                     \* the locals of encode_highcolor
    result                  \* what the call returned ("none" while it runs)

ctxVars == <<buffer, sink, panicked, save_pixel, save_count, active_palette>>
flagVars == <<has_8bit_control, has_gri_arg_limit, skip_dcs_envelope,
              penetrate_multiplexer, encode_policy, palette_type>>
callVars == <<pc, args, body, hc, result>>
vars == <<ctxVars, nodes, flagVars, callVars>>

---------------------------------------------------------------------------
(* Program constants *)

SIXEL_PALETTE_MAX == 256
SCREEN_PACKET_SIZE == 256
PACKET_SIZE == 16384
PALETTE_HIT == 1
PALETTE_CHANGE == 2
I32_MAX == 2147483647

DCS_START_7BIT == <<27, 80>>        \* "\x1BP"
DCS_START_8BIT == <<200, 160>>      \* "\u{220}": U+0220 in UTF-8
DCS_END_7BIT == <<27, 92>>          \* "\x1B\\"
DCS_END_8BIT == <<200, 180>>        \* "\u{234}": U+0234 in UTF-8

CharBang == 33                      \* '!'
CharQuote == 34                     \* '"'
CharHash == 35                      \* '#'
CharDollar == 36                    \* '$'
CharMinus == 45                     \* '-'
CharZero == 48                      \* '0'
CharSemi == 59                      \* ';'
CharQuestion == 63                  \* '?' (b'?')
CharQ == 113                        \* 'q'

---------------------------------------------------------------------------
(* Bounds of the model *)

MaxRun == 520          \* longest single run put in the run-length runs
MaxShortOut == 3       \* bytes already emitted up to which any code may be put
MaxWide == 13          \* widest one-row image given to encode_body
MaxPixels == 3         \* most pixels of the other images given to encode_body
MaxCalls == 5          \* calls of encode_highcolor on the output that are recorded
MaxOutputCount == 2    \* output_count, only ever compared with 0, counts up to this
MaxRewinds == 2        \* rewinds of encode_highcolor are counted up to this
MaxLoopWidth == 100    \* widest row whose pixels are followed one by one
MaxPuts == 3           \* appends to the packet buffer made one by one

---------------------------------------------------------------------------
(* Helpers *)

Min(a, b) == IF a < b THEN a ELSE b
Max(a, b) == IF a > b THEN a ELSE b

RECURSIVE Rep(_, _)
Rep(s, n) == IF n <= 0 THEN <<>> ELSE s \o Rep(s, n - 1)

\* format!("{}", i) of an i32: the decimal digits, '-' first when negative
RECURSIVE FormatNat(_)
FormatNat(i) ==
    IF i < 10 THEN <<CharZero + i>>
    ELSE Append(FormatNat(i \div 10), CharZero + (i % 10))

FormatInt(i) == IF i < 0 THEN <<CharMinus>> \o FormatNat(0 - i) ELSE FormatNat(i)

---------------------------------------------------------------------------
(* The output context threaded through the encoder's methods *)

Ctx == [buffer |-> buffer, sink |-> sink, panicked |-> panicked,
        save_pixel |-> save_pixel, save_count |-> save_count,
        active_palette |-> active_palette]

SetCtx(c) ==
    /\ buffer' = c.buffer
    /\ sink' = c.sink
    /\ panicked' = c.panicked
    /\ save_pixel' = c.save_pixel
    /\ save_count' = c.save_count
    /\ active_palette' = c.active_palette

\* fn_write.write(bytes); its result is discarded (let _ =)
Write(c, bytes) == IF c.panicked THEN c ELSE [c EXCEPT !.sink = Append(@, bytes)]

\* penetrate: the slice buffer[pos..pos + splitsize] panics past the end
RECURSIVE PenetrateLoop(_, _, _, _, _)
PenetrateLoop(c, pos, nwrite, dcs_start, dcs_end) ==
    LET splitsize == SCREEN_PACKET_SIZE - Len(dcs_start) - Len(dcs_end) IN
    IF c.panicked \/ ~(pos < nwrite) THEN c
    ELSE LET c1 == Write(c, dcs_start) IN
         IF pos + splitsize > Len(c1.buffer)
         THEN [c1 EXCEPT !.panicked = TRUE]
         ELSE LET c2 == Write(c1, SubSeq(c1.buffer, pos + 1, pos + splitsize))
                  c3 == Write(c2, dcs_end)
              IN PenetrateLoop(c3, pos + splitsize, nwrite, dcs_start, dcs_end)

penetrate(c, nwrite, dcs_start, dcs_end) ==
    PenetrateLoop(c, 0, nwrite, dcs_start, dcs_end)

\* self.buffer.drain(0..PACKET_SIZE) after the packet was written
DrainPacket(c) ==
    IF c.panicked THEN c
    ELSE [c EXCEPT !.buffer = SubSeq(@, PACKET_SIZE + 1, Len(@))]

advance(c) ==
    IF c.panicked \/ Len(c.buffer) < PACKET_SIZE THEN c
    ELSE DrainPacket(IF penetrate_multiplexer
                     THEN penetrate(c, PACKET_SIZE, DCS_START_7BIT, DCS_END_7BIT)
                     ELSE Write(c, SubSeq(c.buffer, 1, PACKET_SIZE)))

putc(c, ch) == IF c.panicked THEN c ELSE [c EXCEPT !.buffer = Append(@, ch)]
puts(c, s) == IF c.panicked THEN c ELSE [c EXCEPT !.buffer = @ \o s]
puti(c, i) == puts(c, FormatInt(i))

---------------------------------------------------------------------------
(* Run-length encoder *)

\* the condition of the splitting loop of put_flash
GriSplits_m(limit, count) == count > 255
GriSplits(limit, count) == limit /\ count > 255

\* the condition under which a repeat introducer is used
UsesRepeat_m(count) == count > 2
UsesRepeat(count) == count > 3

RECURSIVE put_flash_split(_)
put_flash_split(c) ==
    IF c.panicked \/ ~GriSplits(has_gri_arg_limit, c.save_count) THEN c
    ELSE LET c1 == advance(puts(c, <<CharBang, 50, 53, 53>>))
             c2 == advance(putc(c1, c.save_pixel))
         IN put_flash_split([c2 EXCEPT !.save_count = @ - 255])

RECURSIVE put_flash_literal(_, _)
put_flash_literal(c, k) ==
    IF k <= 0 THEN c
    ELSE put_flash_literal(advance(putc(c, c.save_pixel)), k - 1)

\* self.save_pixel = 0; self.save_count = 0
put_flash_reset(c) ==
    IF c.panicked THEN c
    ELSE [c EXCEPT !.save_pixel = 0, !.save_count = 0]

\* the run that is left after the splitting loop
put_flash_rest(c) ==
    put_flash_reset(IF UsesRepeat(c.save_count)
                    THEN advance(putc(advance(puti(advance(putc(c, CharBang)),
                                                   c.save_count)),
                                      c.save_pixel))
                    ELSE put_flash_literal(c, c.save_count))

put_flash(c) == put_flash_rest(put_flash_split(c))

\* pix is a u8
\* self.save_pixel = pix; self.save_count = 1
put_pixel_start(c, pix) ==
    IF c.panicked THEN c
    ELSE [c EXCEPT !.save_pixel = pix, !.save_count = 1]

\* if pix > b'?' { pix = 0 } pix += b'?'
OffsetCode_m(pix) == pix + CharQuestion
OffsetCode(pix) == (IF pix > CharQuestion THEN 0 ELSE pix) + CharQuestion

put_pixel(c, pix0) ==
    IF c.panicked THEN c
    ELSE IF OffsetCode(pix0) = c.save_pixel
    THEN [c EXCEPT !.save_count = @ + 1]
    ELSE put_pixel_start(put_flash(c), OffsetCode(pix0))

---------------------------------------------------------------------------
(* Pixel buffers.  A buffer is explicit (a 0-based function of the index),  *)
(* uniform (every element holds the same value: the only kind of buffer     *)
(* whose length can be near 2^31), or one of two patterns: "indexed", where *)
(* element idx holds idx % m, and "rgb", where pixel k (three bytes) holds  *)
(* the colour numbered k % m.                                               *)

ExplicitPixels(f) == [kind |-> "explicit", data |-> f]
UniformPixels(v) == [kind |-> "uniform", value |-> v]
IndexedPattern(m) == [kind |-> "indexed", m |-> m]
RgbPattern(m) == [kind |-> "rgb", m |-> m]

\* the bytes of the colour numbered n: distinct 15-bit colours for n < 2^15
ColourByte(n, ch) ==
    8 * (IF ch = 0 THEN n % 32 ELSE IF ch = 1 THEN (n \div 32) % 32 ELSE n \div 1024)

PixAt(pixels, idx) ==
    CASE pixels.kind = "uniform" -> pixels.value
      [] pixels.kind = "indexed" -> idx % pixels.m
      [] pixels.kind = "rgb" -> ColourByte((idx \div 3) % pixels.m, idx % 3)
      [] OTHER -> pixels.data[idx]

\* bitwise or of two naturals
RECURSIVE BitOr(_, _)
BitOr(a, b) ==
    IF a = 0 THEN b
    ELSE IF b = 0 THEN a
    ELSE 2 * BitOr(a \div 2, b \div 2) + (IF a % 2 = 1 \/ b % 2 = 1 THEN 1 ELSE 0)

\* i32 division truncates toward zero
TruncDiv(a, b) ==
    IF (a >= 0) = (b > 0) THEN a \div b
    ELSE 0 - ((0 - a) \div b)

---------------------------------------------------------------------------
(* put_node *)

\* whether put_node designates the palette index
SelectsPalette_m(ncolors, keycolor) == TRUE
SelectsPalette(ncolors, keycolor) == ncolors # 2 \/ keycolor = -1

RECURSIVE put_node_lead(_, _, _, _)
put_node_lead(c, x, np, keycolor) ==
    IF c.panicked \/ ~(x < np.sx) THEN [c |-> c, x |-> x]
    ELSE put_node_lead(IF x # keycolor THEN put_pixel(c, 0) ELSE c,
                       x + 1, np, keycolor)

RECURSIVE put_node_data(_, _, _, _)
put_node_data(c, x, np, keycolor) ==
    IF c.panicked \/ ~(x < np.mx) THEN [c |-> c, x |-> x]
    ELSE put_node_data(IF x # keycolor THEN put_pixel(c, np.map[x]) ELSE c,
                       x + 1, np, keycolor)

\* the palette index is designated when it is not the active one
put_node_select(c, np, ncolors, keycolor) ==
    IF SelectsPalette(ncolors, keycolor) /\ c.active_palette # np.pal
    THEN [advance(puti(advance(putc(c, CharHash)), np.pal))
             EXCEPT !.active_palette = np.pal]
    ELSE c

\* the two loops go on from where r is
put_node_tile(r, np, keycolor) == put_node_data(r.c, r.x, np, keycolor)

put_node_flash(r) == [c |-> put_flash(r.c), x |-> r.x]

put_node(c, x, np, ncolors, keycolor) ==
    put_node_flash(
        put_node_tile(put_node_lead(put_node_select(c, np, ncolors, keycolor),
                                    x, np, keycolor),
                      np, keycolor))

---------------------------------------------------------------------------
(* encode_header *)

encode_header(c, width, height) ==
    LET c1 == IF ~skip_dcs_envelope
              THEN advance(puts(c, IF has_8bit_control THEN DCS_START_8BIT
                                                       ELSE DCS_START_7BIT))
              ELSE c
        \* p = [0, 0, 0]: pcount falls to 0 and no parameter is written
        c2 == advance(putc(c1, CharQ))
        c3 == advance(puts(c2, <<CharQuote, 49, CharSemi, 49, CharSemi>>))
        c4 == advance(puti(c3, width))
        c5 == advance(putc(c4, CharSemi))
    IN advance(puti(c5, height))

---------------------------------------------------------------------------
(* Palette definitions *)

ScaleChannel(v) == (v * 100 + 127) \div 255

output_rgb_palette_definition(c, palette, n, keycolor) ==
    IF n = keycolor THEN c
    ELSE LET c1 == advance(puti(advance(putc(c, CharHash)), n))
             c2 == advance(puts(c1, <<CharSemi, 50, CharSemi>>))
             c3 == advance(puti(c2, ScaleChannel(palette[n * 3 + 1])))
             c4 == advance(puti(advance(putc(c3, CharSemi)),
                                ScaleChannel(palette[n * 3 + 2])))
         IN advance(puti(advance(putc(c4, CharSemi)),
                         ScaleChannel(palette[n * 3 + 3])))

HlsOf(r, g, b) ==
    LET max == Max(Max(r, g), b)
        min == Min(Min(r, g), b)
        l == ((max + min) * 100 + 255) \div 510
        s == IF max = min THEN 0
             ELSE IF l < 50 THEN ((max - min) * 100) \div (max + min)
             ELSE ((max - min) * 100) \div ((255 - max) + (255 - min))
        h == IF max = min THEN 0
             ELSE IF r = max THEN 120 + TruncDiv((g - b) * 60, max - min)
             ELSE IF g = max THEN 240 + TruncDiv((b - r) * 60, max - min)
             ELSE IF r < g THEN 360 + TruncDiv((r - g) * 60, max - min)
             ELSE 0 + TruncDiv((r - g) * 60, max - min)
    IN [h |-> h, l |-> l, s |-> s]

output_hls_palette_definition(c, palette, n, keycolor) ==
    IF n = keycolor THEN c
    ELSE LET hls == HlsOf(palette[n * 3 + 1], palette[n * 3 + 2], palette[n * 3 + 3])
             c1 == advance(puti(advance(putc(c, CharHash)), n))
             c2 == advance(puts(c1, <<CharSemi, 49, CharSemi>>))
             c3 == advance(puti(c2, hls.h))
             c4 == advance(puti(advance(putc(c3, CharSemi)), hls.l))
         IN advance(puti(advance(putc(c4, CharSemi)), hls.s))

\* for n in 0..ncolors: the definitions of the colours n with lo <= n < hi,
\* in ascending order
RECURSIVE PaletteDefinitions(_, _, _, _, _)
PaletteDefinitions(c, palette, lo, hi, keycolor) ==
    IF c.panicked \/ lo >= hi THEN c
    ELSE IF hi = lo + 1
    THEN IF palette_type = "Hls"
         THEN output_hls_palette_definition(c, palette, lo, keycolor)
         ELSE output_rgb_palette_definition(c, palette, lo, keycolor)
    ELSE LET mid == lo + ((hi - lo) \div 2)
             left == PaletteDefinitions(c, palette, lo, mid, keycolor)
         IN IF left.panicked THEN left
            ELSE PaletteDefinitions(left, palette, mid, hi, keycolor)

---------------------------------------------------------------------------
(* encode_body: the column loop of one row *)

\* the guards before pixels[y * width + x] is read
RowOffsetOverflows(y, x, width) ==
    \/ y > I32_MAX \div width
    \/ y * width > I32_MAX - x

\* the guards before map[pix * width + x] is written
MapOffsetOverflows(pix, x, width) ==
    \/ pix > I32_MAX \div width
    \/ pix * width > I32_MAX - x

\* whether the pixel index selects a bit-plane
IsPlanePixel(pix, ncolors, keycolor) ==
    pix >= 0 /\ pix < ncolors /\ pix # keycolor

\* for x in 0..width over an explicit buffer; s = [err, map, fillable]
RECURSIVE ScanColumns(_, _, _)
ScanColumns(b, x, s) ==
    IF x >= b.width THEN s
    ELSE IF RowOffsetOverflows(b.y, x, b.width) THEN [s EXCEPT !.err = TRUE]
    ELSE LET pix == PixAt(b.pixels, b.y * b.width + x) IN
         IF IsPlanePixel(pix, b.ncolors, b.keycolor)
         THEN IF MapOffsetOverflows(pix, x, b.width) THEN [s EXCEPT !.err = TRUE]
              ELSE ScanColumns(b, x + 1,
                       [s EXCEPT !.map[pix * b.width + x] = BitOr(@, 2 ^ b.i)])
         ELSE ScanColumns(b, x + 1,
                  IF ~b.palstate THEN [s EXCEPT !.fillable = FALSE] ELSE s)

\* The same loop over a uniform buffer, where every column holds pix: each
\* guard is monotone in x, so one of them holds at some column of the row
\* exactly when it holds at column 0 or at the last column.
UniformRowOverflows(b) ==
    LET pix == b.pixels.value
        GuardAt(x) ==
            \/ RowOffsetOverflows(b.y, x, b.width)
            \/ /\ IsPlanePixel(pix, b.ncolors, b.keycolor)
               /\ MapOffsetOverflows(pix, x, b.width)
    IN GuardAt(0) \/ GuardAt(b.width - 1)

\* The same loop over a row of a pattern buffer (column x of row y holds
\* (y * width + x) % m): the guard of the map offset is monotone in x for
\* each pixel value, so it holds at some column exactly when it holds at the
\* last column that holds the value.
LastColumnOf(b, r) ==
    LET d == (r - b.y * b.width) % b.pixels.m IN
    IF d > b.width - 1 THEN -1
    ELSE d + b.pixels.m * ((b.width - 1 - d) \div b.pixels.m)

PatternRowOverflows(b) ==
    \/ RowOffsetOverflows(b.y, b.width - 1, b.width)
    \/ \E r \in 0..(b.pixels.m - 1) :
          /\ IsPlanePixel(r, b.ncolors, b.keycolor)
          /\ LastColumnOf(b, r) >= 0
          /\ MapOffsetOverflows(r, LastColumnOf(b, r), b.width)

\* whether a guard of the column loop holds at some column of row b.y: the
\* columns of a row of up to MaxLoopWidth pixels are followed one by one
RowOverflows(b) ==
    IF b.width <= MaxLoopWidth
    THEN \E x \in 0..(b.width - 1) :
            \/ RowOffsetOverflows(b.y, x, b.width)
            \/ /\ IsPlanePixel(PixAt(b.pixels, b.y * b.width + x),
                                b.ncolors, b.keycolor)
               /\ MapOffsetOverflows(PixAt(b.pixels, b.y * b.width + x),
                                     x, b.width)
    ELSE IF b.pixels.kind = "uniform" THEN UniformRowOverflows(b)
    ELSE PatternRowOverflows(b)

\* whether the column loop of encode_body returns BadIntegerOverflow in one
\* of the rows
BodyOverflows(pixels, width, height, ncolors, keycolor) ==
    \E y \in 0..(height - 1) :
        RowOverflows([pixels |-> pixels, y |-> y, width |-> width,
                      ncolors |-> ncolors, keycolor |-> keycolor])

\* fillable before the column loop
InitialFillable(b) ==
    IF encode_policy # "Size" THEN FALSE
    ELSE IF b.palstate
    THEN PixAt(b.pixels, (b.y - b.i) * b.width) >= b.ncolors
    ELSE TRUE

---------------------------------------------------------------------------
(* encode_body: the band tile builder *)

\* the gap after column mx ends the tile
EndsTile_m(n, mx, width) == n >= 9 \/ (mx + n) >= width
EndsTile(n, mx, width) == n >= 10 \/ (mx + n) >= width

RECURSIVE GapLen(_, _, _, _, _)
GapLen(map, base, mx, n, width) ==
    IF (mx + n) < width /\ map[base + mx + n] = 0
    THEN GapLen(map, base, mx, n + 1, width)
    ELSE n

RECURSIVE TileEnd(_, _, _, _)
TileEnd(map, base, mx, width) ==
    IF ~(mx < width) THEN mx
    ELSE IF map[base + mx] # 0 THEN TileEnd(map, base, mx + 1, width)
    ELSE LET n == GapLen(map, base, mx, 1, width) IN
         IF EndsTile(n, mx, width) THEN mx
         ELSE TileEnd(map, base, mx + n - 1 + 1, width)

\* map[c * width..].to_vec()
NodeMap(map, len, base) == [k \in 0..(len - base - 1) |-> map[base + k]]

RECURSIVE ColourNodes(_, _, _, _, _, _)
ColourNodes(map, len, c, sx, width, ns) ==
    IF ~(sx < width) THEN ns
    ELSE IF map[c * width + sx] = 0
    THEN ColourNodes(map, len, c, sx + 1, width, ns)
    ELSE LET mx == TileEnd(map, c * width, sx + 1, width)
             np == [pal |-> c, sx |-> sx, mx |-> mx,
                    map |-> NodeMap(map, len, c * width)]
         IN ColourNodes(map, len, c, mx - 1 + 1, width, <<np>> \o ns)

\* for c in 0..ncolors: the nodes of the colours c with lo <= c < hi; each
\* node is inserted at the front, so those of the later colours come first
RECURSIVE BuildNodes(_, _, _, _, _)
BuildNodes(map, len, lo, hi, width) ==
    IF lo >= hi THEN <<>>
    ELSE IF hi = lo + 1 THEN ColourNodes(map, len, lo, 0, width, <<>>)
    ELSE LET mid == lo + ((hi - lo) \div 2) IN
         BuildNodes(map, len, mid, hi, width) \o BuildNodes(map, len, lo, mid, width)

\* np.map.resize(np.mx, v) and the fill of sx..mx with v = (1 << i) - 1
FillNode(np, i) ==
    LET v == 2 ^ i - 1
        oldlen == Cardinality(DOMAIN np.map)
    IN [np EXCEPT !.map = [k \in 0..(np.mx - 1) |->
                              IF k >= np.sx THEN v
                              ELSE IF k < oldlen THEN np.map[k] ELSE v]]

---------------------------------------------------------------------------
(* SixelOutput::new *)

NewCtx ==
    /\ buffer = <<>>
    /\ sink = <<>>
    /\ panicked = FALSE
    /\ save_pixel = 0
    /\ save_count = 0
    /\ active_palette = -1
    /\ nodes = <<>>

NoCall ==
    /\ args = [op |-> "none"]
    /\ body = [op |-> "none"]
    /\ hc = [op |-> "none"]
    /\ result = "none"

---------------------------------------------------------------------------
(* encode_body, one step at a time.  A call is the record of the output     *)
(* context, the node list, the parameters and locals (b), the position and  *)
(* the result; b.ret is where the caller goes on when the call returns Ok.  *)

ZeroMap(len) == [k \in 0..(len - 1) |-> 0]

NewBody(pixels, width, height, palette, ncolors, keycolor, bodyonly, palstate, ret) ==
    [op |-> "encode_body", pixels |-> pixels, width |-> width, height |-> height,
     palette |-> palette, ncolors |-> ncolors, keycolor |-> keycolor,
     bodyonly |-> bodyonly, palstate |-> palstate, ret |-> ret,
     map |-> <<>>, y |-> 0, i |-> 0, fillable |-> FALSE, x |-> 0, ni |-> 0,
     np |-> [pal |-> -1, sx |-> 0, mx |-> 0, map |-> <<>>]]

BodyState(c, ns, b, p, r) == [c |-> c, nodes |-> ns, b |-> b, pc |-> p, res |-> r]

BodyPcs == {"body_begin", "body_row", "body_pop", "body_rescan", "body_end"}

\* the call goes on with context c: a panic unwinds it, an error returns it,
\* Ok goes on at okpc
Continue(s, c, res, okpc) ==
    [s EXCEPT !.c = c,
              !.pc = IF c.panicked \/ res # "Ok" THEN "done" ELSE okpc,
              !.res = IF c.panicked THEN "Panic"
                      ELSE IF res # "Ok" \/ okpc = "done" THEN res
                      ELSE @]

\* the palette check, active_palette = -1, the map and the palette definitions
body_begin(s) ==
    IF s.b.palette = <<>> THEN Continue(s, s.c, "BadArgument", "done")
    ELSE LET b == s.b
             c0 == [s.c EXCEPT !.active_palette = -1]
             c1 == IF ~b.bodyonly /\ (b.ncolors # 2 \/ b.keycolor = -1)
                   THEN PaletteDefinitions(c0, b.palette, 0, b.ncolors, b.keycolor)
                   ELSE c0
             b1 == [b EXCEPT !.map = IF b.pixels.kind # "uniform"
                                     THEN ZeroMap(b.ncolors * b.width)
                                     ELSE <<>>]
         IN Continue([s EXCEPT !.b = b1], c1, "Ok",
                     IF b.height > 0 THEN "body_row" ELSE "body_end")

\* the tiles of the finished band, DECGNL, and x = 0
band_built(s, b) ==
    Continue([s EXCEPT !.nodes = BuildNodes(b.map, b.ncolors * b.width, 0,
                                            b.ncolors, b.width) \o s.nodes,
                       !.b = [b EXCEPT !.x = 0]],
             IF b.y # 5 THEN advance(putc(s.c, CharMinus)) ELSE s.c,
             "Ok", "body_pop")

\* one row of a buffer that is not uniform; the last row of a band builds
\* its tiles
body_row(s) ==
    LET r == ScanColumns(s.b, 0, [err |-> FALSE, map |-> s.b.map,
                                  fillable |-> InitialFillable(s.b)])
        b1 == [s.b EXCEPT !.map = r.map, !.fillable = r.fillable, !.i = @ + 1]
    IN IF r.err THEN Continue(s, s.c, "BadIntegerOverflow", "done")
       ELSE IF b1.i < 6 /\ (b1.y + 1) < b1.height
       THEN [s EXCEPT !.b = [b1 EXCEPT !.y = @ + 1]]
       ELSE band_built(s, b1)

\* a row of a uniform buffer that is not the last of its band: only the
\* guards of the column loop are followed
body_row_uniform(s) ==
    IF UniformRowOverflows(s.b) THEN Continue(s, s.c, "BadIntegerOverflow", "done")
    ELSE [s EXCEPT !.b = [s.b EXCEPT !.i = @ + 1, !.y = @ + 1]]

\* put_node has put np, which was taken off the list that is now ns; the
\* rescan goes on from index ni
node_put(s, r, np, ns, ni) ==
    Continue([s EXCEPT !.nodes = ns,
                       !.b = [s.b EXCEPT !.x = r.x, !.np = np, !.ni = ni]],
             r.c, "Ok", "body_rescan")

\* if x > np.sx: the cursor is past the start of the tile
CursorPast_m(x, sx) == FALSE
CursorPast(x, sx) == x > sx

\* while let Some(np) = self.nodes.pop(): the carriage return, the fill and
\* put_node; with no node left the band ends
body_pop(s) ==
    IF s.nodes = <<>>
    THEN [s EXCEPT !.b = [s.b EXCEPT !.i = 0, !.y = @ + 1,
                                     !.map = ZeroMap(s.b.ncolors * s.b.width)],
                   !.pc = IF s.b.y + 1 < s.b.height THEN "body_row" ELSE "body_end"]
    ELSE LET np0 == s.nodes[Len(s.nodes)]
             x_reset == CursorPast(s.b.x, np0.sx)
             np == IF s.b.fillable THEN FillNode(np0, s.b.i) ELSE np0
         IN node_put(s,
                     put_node(IF x_reset THEN advance(putc(s.c, CharDollar)) ELSE s.c,
                              IF x_reset THEN 0 ELSE s.b.x,
                              np, s.b.ncolors, s.b.keycolor),
                     np, SubSeq(s.nodes, 1, Len(s.nodes) - 1), Len(s.nodes) - 2)

\* the next index at or below ni whose node starts at or after x, or -1
NextFitting(ns, ni, x) ==
    LET fit == {k \in 0..ni : ns[k + 1].sx >= x} IN
    IF fit = {} THEN -1 ELSE CHOOSE k \in fit : \A j \in fit : j <= k

RemoveAt(ns, ni) == SubSeq(ns, 1, ni) \o SubSeq(ns, ni + 2, Len(ns))

\* the rescan of the remaining nodes, up to and including one put_node
body_rescan(s) ==
    LET ni == NextFitting(s.nodes, s.b.ni, s.b.x) IN
    IF ni < 0
    THEN [s EXCEPT !.b = [s.b EXCEPT !.ni = -1, !.fillable = FALSE],
                   !.pc = "body_pop"]
    ELSE LET np0 == s.nodes[ni + 1]
             np == IF s.b.fillable THEN FillNode(np0, s.b.i) ELSE np0
         IN node_put(s, put_node(s.c, s.b.x, np, s.b.ncolors, s.b.keycolor),
                     np, RemoveAt(s.nodes, ni), ni - 1)

\* the trailing carriage return of a high-colour body
body_end(s) ==
    Continue(s, IF s.b.palstate THEN advance(putc(s.c, CharDollar)) ELSE s.c,
             "Ok", s.b.ret)

\* the call in progress, and a step of it
CurBody == BodyState(Ctx, nodes, body, pc, result)

SetBody(s) ==
    /\ SetCtx(s.c)
    /\ nodes' = s.nodes
    /\ body' = s.b
    /\ pc' = s.pc
    /\ result' = s.res
    /\ UNCHANGED <<flagVars, args, hc>>

BodyBegin == pc = "body_begin" /\ SetBody(body_begin(CurBody))

BodyRow ==
    /\ pc = "body_row"
    /\ body.pixels.kind # "uniform"
    /\ SetBody(body_row(CurBody))

BodyRowUniform ==
    /\ pc = "body_row"
    /\ body.pixels.kind = "uniform"
    /\ \/ UniformRowOverflows(body)
       \/ body.i + 1 < 6 /\ (body.y + 1) < body.height
    /\ SetBody(body_row_uniform(CurBody))

BodyPop == pc = "body_pop" /\ SetBody(body_pop(CurBody))

BodyRescan == pc = "body_rescan" /\ SetBody(body_rescan(CurBody))

BodyEnd == pc = "body_end" /\ SetBody(body_end(CurBody))

\* a whole call of encode_body on a buffer that is not uniform, run to its
\* return
body_step(s) ==
    CASE s.pc = "body_begin" -> body_begin(s)
      [] s.pc = "body_row" -> body_row(s)
      [] s.pc = "body_pop" -> body_pop(s)
      [] s.pc = "body_rescan" -> body_rescan(s)
      [] s.pc = "body_end" -> body_end(s)
      [] OTHER -> s

\* 2^k steps, fewer when the call returns before
RECURSIVE body_steps(_, _)
body_steps(s, k) ==
    IF s.pc \notin BodyPcs THEN s
    ELSE IF k = 0 THEN body_step(s)
    ELSE body_steps(body_steps(s, k - 1), k - 1)

RECURSIVE body_run(_)
body_run(s) == IF s.pc \notin BodyPcs THEN s ELSE body_run(body_steps(s, 10))

\* encode_body(...) called on context c; .c is the context after the call
\* and .res its result
body_returned(s) == [c |-> s.c, res |-> IF s.pc = "returned" THEN "Ok" ELSE s.res]

encode_body(c, pixels, width, height, palette, ncolors, keycolor, bodyonly, palstate) ==
    body_returned(body_run(BodyState(c, <<>>,
                                     NewBody(pixels, width, height, palette, ncolors,
                                             keycolor, bodyonly, palstate, "returned"),
                                     "body_begin", "none")))


---------------------------------------------------------------------------
(* encode_footer *)

\* flush buffer
footer_flush(c) ==
    IF c.panicked \/ c.buffer = <<>> THEN c
    ELSE IF penetrate_multiplexer
    THEN Write(penetrate(c, Len(c.buffer), DCS_START_7BIT, DCS_END_7BIT),
               DCS_END_7BIT)
    ELSE Write(c, c.buffer)

encode_footer(c) ==
    footer_flush(IF ~skip_dcs_envelope /\ ~penetrate_multiplexer
                 THEN advance(puts(c, IF has_8bit_control THEN DCS_END_8BIT
                                                          ELSE DCS_END_7BIT))
                 ELSE c)

---------------------------------------------------------------------------
(* encode and encode_dither.  args holds the arguments of encode: pixels,   *)
(* width, height and the dither configuration (pixelformat, palette,        *)
(* ncolors, keycolor, bodyonly, quality_mode).                              *)

DitherQualities == {"Auto", "High", "Low", "Full"}

\* if width < 1 { return Err(BadInput) } if height < 1 { return Err(BadInput) }
BadDimension_m(width, height) == width < 1
BadDimension(width, height) == width < 1 \/ height < 1

\* the width and height checks and the dispatch on the quality mode
Encode ==
    /\ pc = "encode"
    /\ IF BadDimension(args.width, args.height)
       THEN pc' = "done" /\ result' = "BadInput"
       ELSE /\ pc' = IF args.dither.quality_mode \in DitherQualities
                     THEN "dither_begin" ELSE "hc_begin"
            /\ result' = result
    /\ UNCHANGED <<ctxVars, nodes, flagVars, args, body, hc>>

\* a call on the output context returned with context c: the caller goes on
\* at okpc with result res, unless a panic unwinds it
Returned(c, okpc, res) ==
    /\ SetCtx(c)
    /\ pc' = IF c.panicked THEN "done" ELSE okpc
    /\ result' = IF c.panicked THEN "Panic" ELSE res

\* encode_dither up to the call of encode_body: for PAL8 and G8 the pixels
\* are taken as they are; then the header
DitherBegin ==
    /\ pc = "dither_begin"
    /\ args.dither.pixelformat \in {"PAL8", "G8"}
    /\ Returned(encode_header(Ctx, args.width, args.height), "body_begin", result)
    /\ body' = NewBody(args.pixels, args.width, args.height, args.dither.palette,
                       args.dither.ncolors, args.dither.keycolor,
                       args.dither.bodyonly, FALSE, "dither_footer")
    /\ UNCHANGED <<nodes, flagVars, args, hc>>

\* encode_dither after encode_body returned Ok: the footer, and Ok
DitherFooter ==
    /\ pc = "dither_footer"
    /\ Returned(encode_footer(Ctx), "done", "Ok")
    /\ UNCHANGED <<nodes, flagVars, args, body, hc>>

---------------------------------------------------------------------------
(* encode_highcolor.  hc holds its locals and the palette of the dither     *)
(* configuration, which it rewrites.  The calls it makes on the output      *)
(* context are recorded in hc.calls; with hc.emit = "bytes" their bytes are *)
(* followed too, with hc.emit = "calls" only their sequence and results.    *)

\* the 15-bit colour of an RGB triple: (r & 0xf8) << 7 | (g & 0xf8) << 2 | b >> 3
Quant15(r, g, b) == (r \div 8) * 1024 + (g \div 8) * 32 + (b \div 8)

\* sixel_helper_normalize_pixelformat for RGB888 input: the same triples
sixel_helper_normalize_pixelformat(pixels, pixelformat) == pixels

\* sixel_apply_15bpp_dither, with the diffusion taken as the identity
sixel_apply_15bpp_dither(pixels, px_idx) == pixels

Rgb2Pal(h, pix) == IF pix \in DOMAIN h.rgb2pal THEN h.rgb2pal[pix] ELSE 0

\* a call recorded, up to MaxCalls of them
Recorded(h, call) ==
    IF Len(h.calls) < MaxCalls THEN [h EXCEPT !.calls = Append(@, call)] ELSE h

\* the row of the image at which the index buffer of this pass starts
PassFirstRow(h) == (h.px_idx \div (3 * h.width)) - h.y

NewHighcolor(a, emit) ==
    [op |-> "encode_highcolor", emit |-> emit,
     pixels |-> sixel_helper_normalize_pixelformat(a.pixels, a.dither.pixelformat),
     width |-> a.width, height |-> a.height,
     palette |-> a.dither.palette, ncolors |-> a.dither.ncolors,
     bodyonly |-> a.dither.bodyonly,
     px_idx |-> 0,
     paletted_pixels |-> IF a.width > MaxLoopWidth THEN UniformPixels(0)
                         ELSE ExplicitPixels([k \in 0..(a.width * a.height - 1) |-> 0]),
     rgbhit |-> {}, rgb2pal |-> <<>>,
     output_count |-> 0, is_running |-> TRUE,
     palstate |-> [n \in 0..(SIXEL_PALETTE_MAX - 1) |-> 0],
     palhitcount |-> [n \in 0..(SIXEL_PALETTE_MAX - 1) |-> 0],
     marks |-> {}, marks_len |-> a.width * 6,
     dst |-> 0, nextpal |-> 0, threshold |-> 1, dirty |-> FALSE, mptr |-> 0,
     y |-> 0, mod_y |-> 0,
     panicked |-> FALSE, calls |-> <<>>, rewinds |-> 0, wrote_255 |-> FALSE,
     starts |-> {}, recurred |-> FALSE, resolved |-> {}]

\* palstate[nextpal] != 0 || palhitcount[nextpal] > threshold
SlotTaken(h, n, threshold) == h.palstate[n] # 0 \/ h.palhitcount[n] > threshold

\* the search loop for a slot: nextpal and threshold when it breaks
RECURSIVE SlotSearch(_, _, _)
SlotSearch(h, nextpal, threshold) ==
    LET free == {n \in nextpal..254 : ~SlotTaken(h, n, threshold)} IN
    IF free # {}
    THEN [nextpal |-> CHOOSE n \in free : \A k \in free : n <= k,
          threshold |-> threshold]
    ELSE IF threshold >= 255
    THEN [nextpal |-> Max(nextpal, 255), threshold |-> threshold]
    ELSE SlotSearch(h, 0, IF threshold = 1 THEN 9 ELSE 255)

\* no slot was found
NoSlotLeft_m(nextpal) == nextpal >= 254
NoSlotLeft(nextpal) == nextpal >= 255

\* the colour takes the slot nextpal; after the first flush the colour that
\* the slot held is no longer hit
hc_assign(h, pix, r, g, b) ==
    LET slot == h.nextpal
        pal == slot * 3
    IN IF pal + 3 > Len(h.palette) THEN [h EXCEPT !.panicked = TRUE]
       ELSE [h EXCEPT
               !.rgbhit = IF h.output_count > 0
                          THEN (@ \cup {pix}) \ {Quant15(h.palette[pal + 1],
                                                         h.palette[pal + 2],
                                                         h.palette[pal + 3])}
                          ELSE @ \cup {pix},
               !.paletted_pixels.data[h.dst] = slot,
               !.rgb2pal = [p \in (DOMAIN h.rgb2pal) \cup {pix} |->
                               IF p = pix THEN slot ELSE h.rgb2pal[p]],
               !.nextpal = slot + 1,
               !.marks = @ \cup {h.mptr},
               !.palstate[slot] = PALETTE_CHANGE,
               !.palhitcount[slot] = 1,
               !.palette = [@ EXCEPT ![pal + 1] = r, ![pal + 2] = g, ![pal + 3] = b]]

\* the colour is hit: its slot is used again
hc_hit(h, pix) ==
    LET pp == Rgb2Pal(h, pix) IN
    [h EXCEPT !.paletted_pixels.data[h.dst] = pp,
              !.marks = @ \cup {h.mptr},
              !.palstate[pp] = IF @ # 0 THEN PALETTE_HIT ELSE @,
              !.palhitcount[pp] = IF @ < 255 THEN @ + 1 ELSE @]

hc_resolve(h) ==
    LET px == sixel_apply_15bpp_dither(h.pixels, h.px_idx)
        r == PixAt(px, h.px_idx)
        g == PixAt(px, h.px_idx + 1)
        b == PixAt(px, h.px_idx + 2)
        pix == Quant15(r, g, b)
    IN IF pix \notin h.rgbhit
       THEN LET s == SlotSearch(h, h.nextpal, h.threshold)
                h1 == [h EXCEPT !.nextpal = s.nextpal, !.threshold = s.threshold]
            IN IF NoSlotLeft(s.nextpal)
               THEN [h1 EXCEPT !.dirty = TRUE, !.paletted_pixels.data[h.dst] = 255,
                               !.wrote_255 = TRUE]
               ELSE hc_assign(h1, pix, r, g, b)
       ELSE hc_hit(h, pix)

\* one pixel of the row
hc_pixel_next(h) ==
    IF h.panicked THEN h
    ELSE [h EXCEPT !.mptr = @ + 1, !.dst = @ + 1, !.px_idx = @ + 3]

hc_pixel(h) ==
    IF h.panicked THEN h
    ELSE IF h.mptr >= h.marks_len THEN [h EXCEPT !.panicked = TRUE]
    ELSE hc_pixel_next(IF h.mptr \in h.marks
                       THEN [h EXCEPT !.paletted_pixels.data[h.dst] = 255,
                                      !.wrote_255 = TRUE]
                       ELSE hc_resolve(h))

\* the next n pixels of the row
RECURSIVE hc_columns(_, _)
hc_columns(h, n) ==
    IF h.panicked \/ n <= 0 THEN h
    ELSE IF n = 1 THEN hc_pixel(h)
    ELSE LET left == hc_columns(h, n \div 2) IN
         IF left.panicked THEN left
         ELSE hc_columns(left, n - (n \div 2))

\* The same loop over the only row of an image wider than MaxLoopWidth
\* whose pixel k holds colour k % m, with m <= 255 colours, in the first
\* pass: colour j is new at column j, where the search stops at slot j at
\* once, and is hit at each of its later columns.
WideFirstRow(h) ==
    /\ h.width > MaxLoopWidth /\ h.height = 1 /\ h.y = 0
    /\ h.output_count = 0 /\ h.rgbhit = {} /\ h.nextpal = 0
    /\ h.pixels.kind = "rgb" /\ h.pixels.m <= 255 /\ h.pixels.m <= h.width
    /\ Len(h.palette) >= 3 * h.pixels.m
    /\ h.marks_len >= h.width

\* the number of columns of the row that hold colour j
ColumnsOf(h, j) == (h.width - j + h.pixels.m - 1) \div h.pixels.m

ColourQuant15(j) == Quant15(ColourByte(j, 0), ColourByte(j, 1), ColourByte(j, 2))

hc_wide_row(h) ==
    LET m == h.pixels.m IN
    [h EXCEPT
       !.rgbhit = {ColourQuant15(j) : j \in 0..(m - 1)},
       !.rgb2pal = [p \in {ColourQuant15(j) : j \in 0..(m - 1)} |->
                       CHOOSE j \in 0..(m - 1) : ColourQuant15(j) = p],
       !.paletted_pixels = IndexedPattern(m),
       !.nextpal = m,
       !.marks = 0..(h.width - 1),
       !.palstate = [n \in DOMAIN @ |->
                        IF n >= m THEN @[n]
                        ELSE IF ColumnsOf(h, n) >= 2 THEN PALETTE_HIT
                        ELSE PALETTE_CHANGE],
       !.palhitcount = [n \in DOMAIN @ |->
                           IF n >= m THEN @[n] ELSE Min(ColumnsOf(h, n), 255)],
       !.palette = [k \in DOMAIN @ |->
                       IF k > 3 * m THEN @[k]
                       ELSE ColourByte((k - 1) \div 3, (k - 1) % 3)],
       !.mptr = h.width, !.dst = h.width, !.px_idx = 3 * h.width]

HcState(c, h, p, r) == [c |-> c, h |-> h, pc |-> p, res |-> r]

HcPanic(s, h) == [s EXCEPT !.h = h, !.pc = "done", !.res = "Panic"]

\* the allocations before the pass loop
hc_begin(s, a, emit) == [s EXCEPT !.h = NewHighcolor(a, emit), !.pc = "hc_pass"]

\* what a new pass finds and does not reset: the pixel cursor, the rows
\* left, the index buffer, the hit table, the hit counts, the palette and
\* whether a flush was made (output_count is only compared with 0)
PassStart(h) ==
    [px_idx |-> h.px_idx, height |-> h.height,
     paletted_pixels |-> h.paletted_pixels,
     rgbhit |-> h.rgbhit, rgb2pal |-> h.rgb2pal,
     palhitcount |-> h.palhitcount, palette |-> h.palette,
     flushed |-> h.output_count > 0]

\* while is_running: the locals of a new pass.  starts holds what the
\* passes so far began with, and recurred tells that a pass began with what
\* an earlier pass began with.
hc_pass(s) ==
    IF ~s.h.is_running THEN [s EXCEPT !.pc = "hc_final"]
    ELSE [s EXCEPT !.pc = "hc_row",
                   !.h = [s.h EXCEPT
                            !.recurred = @ \/ PassStart(s.h) \in s.h.starts,
                            !.starts = @ \cup {PassStart(s.h)},
                            !.dst = 0, !.nextpal = 0, !.threshold = 1,
                            !.dirty = FALSE, !.mptr = 0,
                            !.marks = {}, !.marks_len = s.h.width * 6,
                            !.palstate = [n \in 0..(SIXEL_PALETTE_MAX - 1) |-> 0],
                            !.y = 0, !.mod_y = 0]]

\* one row of the pass and what follows it up to the flush
\* h holds the locals after the columns of a row, y not yet counted up
hc_row_end(s, h) ==
    LET y == h.y + 1
        mod_y == IF y >= h.height /\ h.dirty THEN 5 ELSE h.mod_y
    IN IF h.panicked THEN HcPanic(s, h)
       ELSE IF y >= h.height /\ ~h.dirty
       THEN [s EXCEPT !.h = [h EXCEPT !.y = y, !.is_running = FALSE],
                      !.pc = "hc_pass"]
       ELSE IF h.dirty /\ (mod_y = 5 \/ y >= h.height)
       THEN [s EXCEPT !.h = [h EXCEPT !.y = y, !.mod_y = mod_y], !.pc = "hc_flush"]
       ELSE IF mod_y + 1 = 6
       THEN [s EXCEPT !.h = [h EXCEPT !.y = y, !.marks = {}, !.marks_len = 32768,
                                      !.mptr = 0, !.mod_y = 0]]
       ELSE [s EXCEPT !.h = [h EXCEPT !.y = y, !.mod_y = mod_y + 1]]

hc_row(s) ==
    hc_row_end(s, IF WideFirstRow(s.h) THEN hc_wide_row(s.h)
                  ELSE hc_columns(s.h, s.h.width))

\* encode_header called by encode_highcolor
hc_header(s) ==
    [s EXCEPT !.c = IF s.h.emit = "bytes"
                    THEN encode_header(s.c, s.h.width, s.h.height) ELSE @,
              !.h = Recorded(@, [call |-> "encode_header", width |-> s.h.width,
                                 height |-> s.h.height])]

\* encode_body called by encode_highcolor on the index buffer, with key
\* colour 255 and the palette state.  Where the bytes are not followed the
\* result is that of the palette check and of the guards of the column loop.
\* the pixels of the image that a body of the first rows of the index
\* buffer emits with a palette slot, not as the key colour 255
EmittedResolved(h) ==
    {PassFirstRow(h) * h.width + k : k \in
        {j \in 0..(h.width * h.height - 1) : PixAt(h.paletted_pixels, j) # 255}}

\* resolved holds the pixels that a body which returned Ok has emitted with
\* a palette slot
hc_body_returned(s, r) ==
    [s EXCEPT !.c = r.c, !.res = r.res,
              !.h = [Recorded(@, [call |-> "encode_body",
                                  first |-> PassFirstRow(s.h),
                                  rows |-> s.h.height, res |-> r.res])
                        EXCEPT !.resolved = IF r.res = "Ok"
                                            THEN @ \cup EmittedResolved(s.h)
                                            ELSE @]]

hc_body(s) ==
    hc_body_returned(s,
        IF s.h.emit = "bytes"
        THEN encode_body(s.c, s.h.paletted_pixels, s.h.width,
                         s.h.height, s.h.palette, s.h.ncolors, 255,
                         s.h.bodyonly, TRUE)
        ELSE [c |-> s.c,
              res |-> IF s.h.palette = <<>> THEN "BadArgument"
                      ELSE IF BodyOverflows(s.h.paletted_pixels, s.h.width,
                                            s.h.height, s.h.ncolors, 255)
                      THEN "BadIntegerOverflow"
                      ELSE "Ok"])

\* the flush of a dirty band: the header before the first one, the body of
\* the rows of this pass, and the rewind when rows remain
\* orig_height = height; output_count += 1; height = y
hc_flush_rows(s) ==
    [s EXCEPT !.h = [s.h EXCEPT !.output_count = Min(@ + 1, MaxOutputCount),
                                !.height = s.h.y]]

\* height = orig_height - height + 6, height being y at this point
RewoundHeight_m(orig_height, y) == orig_height - y
RewoundHeight(orig_height, y) == orig_height - y + 6

\* encode_body returned to the flush with state s2; s is the state in which
\* the flush began
hc_flush_end(s, s2) ==
    IF s2.c.panicked THEN HcPanic(s2, s2.h)
    ELSE IF s2.res # "Ok" THEN [s2 EXCEPT !.pc = "done"]
    ELSE IF s.h.y >= s.h.height
    THEN [s2 EXCEPT !.res = s.res, !.pc = "hc_pass",
                    !.h = [s2.h EXCEPT !.is_running = FALSE]]
    ELSE [s2 EXCEPT !.res = s.res, !.pc = "hc_pass",
                    !.h = [s2.h EXCEPT
                             !.px_idx = @ - 6 * s.h.width * 3,
                             !.height = RewoundHeight(s.h.height, s.h.y),
                             !.rewinds = Min(@ + 1, MaxRewinds)]]

hc_flush(s) ==
    hc_flush_end(s, hc_body(hc_flush_rows(IF s.h.output_count = 0
                                          THEN hc_header(s) ELSE s)))

\* after the pass loop: the header if no flush emitted it, the body of the
\* index buffer with its result dropped, the footer, and Ok
\* encode_footer called by encode_highcolor
hc_footer(s) ==
    [s EXCEPT !.c = IF s.h.emit = "bytes" THEN encode_footer(@) ELSE @,
              !.h = Recorded(@, [call |-> "encode_footer"])]

hc_return(s) ==
    IF s.c.panicked THEN HcPanic(s, s.h)
    ELSE [s EXCEPT !.res = "Ok", !.pc = "done"]

hc_final(s) ==
    hc_return(hc_footer(hc_body(IF s.h.output_count = 0 THEN hc_header(s) ELSE s)))

CurHc == HcState(Ctx, hc, pc, result)

SetHc(s) ==
    /\ SetCtx([s.c EXCEPT !.panicked = @ \/ s.res = "Panic"])
    /\ hc' = s.h
    /\ pc' = s.pc
    /\ result' = s.res
    /\ UNCHANGED <<nodes, flagVars, args, body>>

HcBegin(emit) == pc = "hc_begin" /\ SetHc(hc_begin(CurHc, args, emit))

HcPass == pc = "hc_pass" /\ SetHc(hc_pass(CurHc))

HcRow == pc = "hc_row" /\ SetHc(hc_row(CurHc))

HcFlush == pc = "hc_flush" /\ SetHc(hc_flush(CurHc))

HcFinal == pc = "hc_final" /\ SetHc(hc_final(CurHc))

---------------------------------------------------------------------------
(* Specification of the run-length encoder: put_pixel and put_flash called  *)
(* on a new output context, with either setting of the repeat limit.        *)

RLECodes == {0, 1, 62, 63, 64, 255}

InitRLE ==
    /\ NewCtx
    /\ NoCall
    /\ pc = "rle"
    /\ has_8bit_control = FALSE
    /\ has_gri_arg_limit \in BOOLEAN
    /\ skip_dcs_envelope = FALSE
    /\ penetrate_multiplexer = FALSE
    /\ encode_policy = "Auto"
    /\ palette_type = "Auto"

PutPixelCall(pix) ==
    /\ pc = "rle"
    /\ save_count < MaxRun
    /\ \/ Len(buffer) + save_count < MaxShortOut
       \/ /\ Len(buffer) = 0
          /\ OffsetCode(pix) = save_pixel
    /\ SetCtx(put_pixel(Ctx, pix))
    /\ args' = [op |-> "put_pixel", pix |-> pix]
    /\ UNCHANGED <<nodes, flagVars, pc, body, hc, result>>

PutFlashCall ==
    /\ pc = "rle"
    /\ save_count > 0
    /\ SetCtx(put_flash(Ctx))
    /\ args' = [op |-> "put_flash"]
    /\ UNCHANGED <<nodes, flagVars, pc, body, hc, result>>

NextRLE == (\E pix \in RLECodes : PutPixelCall(pix)) \/ PutFlashCall

SpecRLE == InitRLE /\ [][NextRLE]_vars

---------------------------------------------------------------------------
(* Specification of encode_body: one call on a new output context, for     *)
(* every one-row image of two indices up to MaxWide columns and for every   *)
(* image of up to MaxPixels pixels over three indices.                      *)

\* a palette of n colours, three bytes each
PaletteOf(n) == [k \in 1..(3 * n) |-> (k * 37) % 256]

\* the one-row images of w columns whose pixels of index 1 lie in two
\* intervals [s1, s2) and [s3, s4), either of which may be empty
WideRows(w) ==
    { [x \in 0..(w - 1) |->
          IF (x >= s[1] /\ x < s[2]) \/ (x >= s[3] /\ x < s[4]) THEN 1 ELSE 0] :
        s \in { t \in (0..w) \X (0..w) \X (0..w) \X (0..w) :
                  t[1] <= t[2] /\ t[2] <= t[3] /\ t[3] <= t[4] } }

BodyCall(b, policy, ptype) == [body |-> b, policy |-> policy, ptype |-> ptype]

\* one-row images of two indices with at most two spans of index 1, up to
\* widest columns
WideBodies(widest) ==
    UNION {
      { BodyCall(NewBody(ExplicitPixels(d), w, 1, PaletteOf(2), 2, kc, TRUE, FALSE,
                         "done"), "Auto", "Auto") :
          d \in WideRows(w), kc \in {-1, 0} } :
      w \in 1..widest }

\* the shapes of images of at most most pixels
Shapes(most) == { sh \in (1..most) \X (1..most) : sh[1] * sh[2] <= most }

ColourSettings == {<<2, -1>>, <<2, 1>>, <<2, 2>>, <<3, -1>>, <<3, 1>>}
OutputSettings == {<<TRUE, "Auto">>, <<FALSE, "Auto">>, <<FALSE, "Hls">>}

\* every image of at most most pixels over three indices
SmallBodies(most) ==
    UNION {
      { BodyCall(NewBody(ExplicitPixels(d), sh[1], sh[2], PaletteOf(cs[1]), cs[1],
                         cs[2], os[1], ps, "done"), policy, os[2]) :
          d \in [0..(sh[1] * sh[2] - 1) -> 0..2], cs \in ColourSettings,
          os \in OutputSettings, ps \in BOOLEAN, policy \in {"Auto", "Size"} } :
      sh \in Shapes(most) }

EmptyPaletteBodies ==
    { BodyCall(NewBody(ExplicitPixels([k \in 0..0 |-> 0]), 1, 1, <<>>, nc, -1, bo,
                       FALSE, "done"), "Auto", "Auto") :
        nc \in {2, 3}, bo \in BOOLEAN }

InitBody ==
    /\ NewCtx
    /\ pc = "body_begin"
    /\ args = [op |-> "none"]
    /\ hc = [op |-> "none"]
    /\ result = "none"
    /\ has_8bit_control = FALSE
    /\ has_gri_arg_limit = TRUE
    /\ skip_dcs_envelope = FALSE
    /\ penetrate_multiplexer = FALSE
    /\ \E call \in WideBodies(MaxWide) \cup SmallBodies(MaxPixels)
                     \cup EmptyPaletteBodies :
          /\ body = call.body
          /\ encode_policy = call.policy
          /\ palette_type = call.ptype

NextBody == BodyBegin \/ BodyRow \/ BodyPop \/ BodyRescan \/ BodyEnd

SpecBody == InitBody /\ [][NextBody]_vars

---------------------------------------------------------------------------
(* Specification of encode: one call on a new output context, in 7-bit or   *)
(* 8-bit mode and with or without the envelope, for images of a few pixels  *)
(* in every quality mode, with a palette or with an empty one, and for      *)
(* uniform images of 2^31 pixels and more in the dither path.               *)

DitherConf(pixelformat, palette, ncolors, keycolor, bodyonly, quality_mode) ==
    [pixelformat |-> pixelformat, palette |-> palette, ncolors |-> ncolors,
     keycolor |-> keycolor, bodyonly |-> bodyonly, quality_mode |-> quality_mode]

EncodeCall(pixels, width, height, dither) ==
    [op |-> "encode", pixels |-> pixels, width |-> width, height |-> height,
     dither |-> dither]

\* the palette of a high-colour dither configuration: 256 colours, all zero
HighcolorPalette == [k \in 1..(3 * SIXEL_PALETTE_MAX) |-> 0]

EncodeWidths == {-1, 0, 1, 2, 3}
EncodeHeights == {-1, 0, 1, 2, 7}

DitherCalls ==
    { EncodeCall(IndexedPattern(m), w, h,
                 DitherConf("PAL8", pal, 2, -1, bo, q)) :
        m \in {1, 2}, w \in EncodeWidths, h \in EncodeHeights,
        pal \in {<<>>, PaletteOf(2)}, bo \in BOOLEAN, q \in DitherQualities }

HighcolorCalls ==
    { EncodeCall(RgbPattern(m), w, h,
                 DitherConf("RGB888", pal, SIXEL_PALETTE_MAX, -1, FALSE, "HighColor")) :
        m \in {1, 2}, w \in EncodeWidths, h \in EncodeHeights,
        pal \in {<<>>, HighcolorPalette} }

\* width * (height - 1) <= i32::MAX < width * height, in one band
HugeShapes == {<<I32_MAX, 2>>, <<I32_MAX \div 2, 3>>, <<I32_MAX \div 5, 6>>}

HugeCalls ==
    { EncodeCall(UniformPixels(0), sh[1], sh[2],
                 DitherConf("PAL8", PaletteOf(2), 2, -1, bo, "Auto")) :
        sh \in HugeShapes, bo \in BOOLEAN }

InitEncode ==
    /\ NewCtx
    /\ pc = "encode"
    /\ body = [op |-> "none"]
    /\ hc = [op |-> "none"]
    /\ result = "none"
    /\ has_8bit_control \in BOOLEAN
    /\ has_gri_arg_limit = TRUE
    /\ skip_dcs_envelope \in BOOLEAN
    /\ penetrate_multiplexer = FALSE
    /\ encode_policy = "Auto"
    /\ palette_type = "Auto"
    /\ args \in DitherCalls \cup HighcolorCalls \cup HugeCalls

NextEncode ==
    \/ Encode
    \/ DitherBegin
    \/ BodyBegin
    \/ BodyRow
    \/ BodyRowUniform
    \/ BodyPop
    \/ BodyRescan
    \/ BodyEnd
    \/ DitherFooter
    \/ HcBegin("bytes")
    \/ HcPass
    \/ HcRow
    \/ HcFinal

SpecEncode == InitEncode /\ [][NextEncode]_vars

---------------------------------------------------------------------------
(* Specification of encode in the high-colour mode, for images given by     *)
(* width, height and the number m of colours they cycle through (pixel k    *)
(* holds colour k % m): images of one and two columns with few colours, and *)
(* images of 43 and 86 columns with 255 colours and more, and one of 22     *)
(* columns whose second band is the first to run out of slots.  The calls   *)
(* on the output context are recorded, not their bytes.                     *)

SmallHighcolorImages == (1..2) \X {1, 6, 7, 13} \X {1, 3}

LargeHighcolorImages ==
    {<<43, 6, 255>>, <<43, 7, 255>>, <<43, 6, 256>>, <<43, 7, 256>>,
     <<43, 12, 256>>, <<86, 7, 1000>>, <<22, 13, 300>>}

\* a row of 8,500,000 pixels with 255 colours: the index 253 times the width
\* exceeds i32::MAX
WideHighcolorImages == {<<8500000, 1, 255>>}

HighcolorImages ==
    SmallHighcolorImages \cup LargeHighcolorImages \cup WideHighcolorImages

\* the number of distinct 15-bit colours of the image of the call
DistinctColours(a) == Min(a.pixels.m, a.width * a.height)

InitHC ==
    /\ NewCtx
    /\ pc = "encode"
    /\ body = [op |-> "none"]
    /\ hc = [op |-> "none"]
    /\ result = "none"
    /\ has_8bit_control = FALSE
    /\ has_gri_arg_limit = TRUE
    /\ skip_dcs_envelope = FALSE
    /\ penetrate_multiplexer = FALSE
    /\ encode_policy = "Auto"
    /\ palette_type = "Auto"
    /\ \E img \in HighcolorImages :
          args = EncodeCall(RgbPattern(img[3]), img[1], img[2],
                            DitherConf("RGB888", HighcolorPalette, SIXEL_PALETTE_MAX,
                                       -1, FALSE, "HighColor"))

NextHC ==
    \/ Encode
    \/ HcBegin("calls")
    \/ HcPass
    \/ HcRow
    \/ HcFlush
    \/ HcFinal

SpecHC == InitHC /\ [][NextHC]_vars

---------------------------------------------------------------------------
(* Specification of the packet buffer: a call appends to the buffer with    *)
(* putc or puts and then calls advance, as every method of the encoder      *)
(* does, and encode_footer flushes what is left.  The buffer holds what     *)
(* earlier calls left in it: fewer than PACKET_SIZE data characters.        *)

PacketFills == {0, 1, 251, 252, 253, 504, PACKET_SIZE - 2, PACKET_SIZE - 1}

PacketChars == {CharQuestion, 126}

PacketStrings == {<<CharBang, 50, 53, 53>>}

InitPacket ==
    /\ \E n \in PacketFills : buffer = [k \in 1..n |-> CharQuestion]
    /\ sink = <<>>
    /\ panicked = FALSE
    /\ save_pixel = 0
    /\ save_count = 0
    /\ active_palette = -1
    /\ nodes = <<>>
    /\ args = [op |-> "packets", puts |-> 0]
    /\ body = [op |-> "none"]
    /\ hc = [op |-> "none"]
    /\ result = "none"
    /\ pc = "put"
    /\ has_8bit_control \in BOOLEAN
    /\ has_gri_arg_limit = TRUE
    /\ skip_dcs_envelope \in BOOLEAN
    /\ penetrate_multiplexer \in BOOLEAN
    /\ encode_policy = "Auto"
    /\ palette_type = "Auto"

\* the buffer was appended to: advance is called next
Appending(c) ==
    /\ pc = "put"
    /\ args.puts < MaxPuts
    /\ SetCtx(c)
    /\ pc' = "advance"
    /\ args' = [args EXCEPT !.puts = @ + 1]
    /\ UNCHANGED <<nodes, flagVars, body, hc, result>>

PutcCall(ch) == Appending(putc(Ctx, ch))

PutsCall(s) == Appending(puts(Ctx, s))

\* advance returned, or panicked in penetrate
Advanced(c) ==
    /\ SetCtx(c)
    /\ pc' = IF c.panicked THEN "done" ELSE "put"
    /\ result' = IF c.panicked THEN "Panic" ELSE result
    /\ UNCHANGED <<nodes, flagVars, args, body, hc>>

AdvanceCall == pc = "advance" /\ Advanced(advance(Ctx))

FooterReturned(c) ==
    /\ SetCtx(c)
    /\ pc' = "done"
    /\ result' = IF c.panicked THEN "Panic" ELSE "Ok"
    /\ UNCHANGED <<nodes, flagVars, args, body, hc>>

FooterCall == pc = "put" /\ FooterReturned(encode_footer(Ctx))

NextPacket ==
    \/ \E ch \in PacketChars : PutcCall(ch)
    \/ \E s \in PacketStrings : PutsCall(s)
    \/ AdvanceCall
    \/ FooterCall

SpecPacket == InitPacket /\ [][NextPacket]_vars

---------------------------------------------------------------------------
(* Reading the emitted stream back: literal data characters and repeat      *)
(* directives '!' Pn Ch                                                     *)

IsDigit(b) == b \in 48..57

RECURSIVE LeadingDigits(_)
LeadingDigits(s) ==
    IF s # <<>> /\ IsDigit(Head(s)) THEN 1 + LeadingDigits(Tail(s)) ELSE 0

RECURSIVE DecimalValue(_)
DecimalValue(s) ==
    IF s = <<>> THEN 0
    ELSE 10 * DecimalValue(SubSeq(s, 1, Len(s) - 1)) + (s[Len(s)] - 48)

LitTok(ch) == [rep |-> FALSE, n |-> 1, ch |-> ch]
RepTok(n, ch) == [rep |-> TRUE, n |-> n, ch |-> ch]
BadTok == [rep |-> TRUE, n |-> -1, ch |-> -1]

RECURSIVE ParseRuns(_)
ParseRuns(s) ==
    IF s = <<>> THEN <<>>
    ELSE IF Head(s) = 33
    THEN LET k == LeadingDigits(Tail(s)) IN
         IF k = 0 \/ Len(s) < k + 2 THEN <<BadTok>>
         ELSE <<RepTok(DecimalValue(SubSeq(s, 2, k + 1)), s[k + 2])>>
              \o ParseRuns(SubSeq(s, k + 3, Len(s)))
    ELSE <<LitTok(Head(s))>> \o ParseRuns(Tail(s))

\* a step of the run-length encoder that flushes the run in progress
FlushStep == save_count > 0 /\ (save_count' = 0 \/ save_pixel' # save_pixel)

\* the bytes a step appended to the buffer
Appended(old, new) == SubSeq(new, Len(old) + 1, Len(new))
Extends(old, new) == Len(new) >= Len(old) /\ SubSeq(new, 1, Len(old)) = old

CeilDiv(a, b) == (a + b - 1) \div b

\* the run-length law for runs of at most 255
ShortRunLaw(n, ch) ==
    IF n <= 3 THEN Rep(<<LitTok(ch)>>, n) ELSE <<RepTok(n, ch)>>

(* C1 as stated: with the repeat limit enabled a flushed run of n is n      *)
(* literal characters for n <= 3, one repeat directive for 4 <= n <= 255,   *)
(* and for n > 255 exactly ceil(n/255) repeat directives, all with          *)
(* argument 255 except the last.                                            *)
C1_StatedLaw(n, ch, toks) ==
    IF n <= 255 THEN toks = ShortRunLaw(n, ch)
    ELSE /\ Len(toks) = CeilDiv(n, 255)
         /\ \A k \in 1..Len(toks) :
                /\ toks[k].rep
                /\ toks[k].ch = ch
                /\ k < Len(toks) => toks[k].n = 255

C1_RunLengthLawAsStated ==
    [][(has_gri_arg_limit /\ FlushStep) =>
          /\ Extends(buffer, buffer')
          /\ C1_StatedLaw(save_count, save_pixel,
                          ParseRuns(Appended(buffer, buffer')))]_vars

C1_AmendedLaw(n, ch, toks) ==
    LET q == CeilDiv(n, 255) - 1 IN
    toks = Rep(<<RepTok(255, ch)>>, q) \o ShortRunLaw(n - 255 * q, ch)

(* C1 amended: with the repeat limit enabled a flushed run of n > 255 is    *)
(* q = ceil(n/255) - 1 directives with argument 255 followed by the rest    *)
(* r = n - 255 q (1 <= r <= 255) flushed like a run of r: r literal         *)
(* characters for r <= 3, one directive '!r c' for r >= 4.  Runs of at      *)
(* most 255 are as stated.                                                  *)
C1_RunLengthLawLimited ==
    [][(has_gri_arg_limit /\ FlushStep) =>
          /\ Extends(buffer, buffer')
          /\ C1_AmendedLaw(save_count, save_pixel,
                           ParseRuns(Appended(buffer, buffer')))]_vars

\* a run of 256 was flushed with the limit enabled: "!255?" and one literal
C1_Witness ==
    /\ has_gri_arg_limit
    /\ save_count = 0
    /\ buffer = <<33, 50, 53, 53, 63, 63>>

---------------------------------------------------------------------------
(* The tiles of a band read against the band's bit-plane map *)

\* the columns where a span of colour c starts
SpanStarts(map, c, w) ==
    {a \in 0..(w - 1) : map[c * w + a] # 0 /\ (a = 0 \/ map[c * w + a - 1] = 0)}

\* the column after the span that holds column a
RECURSIVE SpanEnd(_, _, _, _)
SpanEnd(map, c, w, a) ==
    IF a < w /\ map[c * w + a] # 0 THEN SpanEnd(map, c, w, a + 1) ELSE a

\* the starts of two spans of colour c with no span between them
SpanPairs(map, c, w) ==
    {p \in SpanStarts(map, c, w) \X SpanStarts(map, c, w) :
        /\ p[1] < p[2]
        /\ ~\E m \in SpanStarts(map, c, w) : p[1] < m /\ m < p[2]}

OneTile(ns, c, a1, b2) ==
    \E k \in 1..Len(ns) : ns[k].pal = c /\ ns[k].sx <= a1 /\ b2 <= ns[k].mx

TwoTiles(ns, c, b1, a2) ==
    \E k1, k2 \in 1..Len(ns) :
        /\ k1 # k2
        /\ ns[k1].pal = c /\ ns[k1].mx = b1
        /\ ns[k2].pal = c /\ ns[k2].sx = a2

\* the step of encode_body that ends a band and builds its tiles
BandBuildStep == pc = "body_row" /\ pc' = "body_pop"

C2_StatedLaw(map, ns, ncolors, w) ==
    \A c \in 0..(ncolors - 1) : \A p \in SpanPairs(map, c, w) :
        LET b1 == SpanEnd(map, c, w, p[1])
            b2 == SpanEnd(map, c, w, p[2])
        IN IF p[2] - b1 < 10 /\ b2 < w
           THEN OneTile(ns, c, p[1], b2)
           ELSE TwoTiles(ns, c, b1, p[2])

(* C2 as stated: two spans of one colour in a band with a gap of g unset    *)
(* columns between them are one tile when g < 10 and the merged tile does   *)
(* not reach column width, and two tiles in every other case.               *)
C2_TileMergeAsStated ==
    [][BandBuildStep =>
          C2_StatedLaw(body'.map, nodes', body'.ncolors, body'.width)]_vars

C2_AmendedLaw(map, ns, ncolors, w) ==
    \A c \in 0..(ncolors - 1) : \A p \in SpanPairs(map, c, w) :
        LET b1 == SpanEnd(map, c, w, p[1])
            b2 == SpanEnd(map, c, w, p[2])
        IN IF p[2] - b1 < 10
           THEN OneTile(ns, c, p[1], b2)
           ELSE TwoTiles(ns, c, b1, p[2])

(* C2 amended: two spans of one colour in a band with a gap of g unset      *)
(* columns between them are one tile exactly when g < 10, whether or not    *)
(* the merged tile reaches column width; for g >= 10 they are two tiles.    *)
C2_TileMerge ==
    [][BandBuildStep =>
          C2_AmendedLaw(body'.map, nodes', body'.ncolors, body'.width)]_vars

\* a band of 11 columns with colour 1 at columns 0 and 10 only (a gap of 9)
\* was built into the one tile 0..11, which ends at the right edge
C2_Witness ==
    /\ pc = "body_pop"
    /\ body.width = 11
    /\ body.map[11] # 0
    /\ \A x \in 1..9 : body.map[11 + x] = 0
    /\ body.map[21] # 0
    /\ Len(nodes) = 1
    /\ nodes[1].pal = 1 /\ nodes[1].sx = 0 /\ nodes[1].mx = 11

---------------------------------------------------------------------------
(* The palette-select directives of the tiles put by one encode_body call *)

\* a step that put one tile: put_node took it off the node list
NodeStep == pc \in {"body_pop", "body_rescan"} /\ Len(nodes') = Len(nodes) - 1

CountOf(s, b) == Cardinality({k \in 1..Len(s) : s[k] = b})

\* the number of '#' the step appended
SelectsEmitted == CountOf(Appended(buffer, buffer'), 35)

(* C3 as stated: between two consecutive tiles of one colour at most one    *)
(* palette select is emitted, and a tile whose colour differs from the      *)
(* previous tile's gets exactly one, for every ncolors and keycolor.        *)
C3_ReselectAsStated ==
    [][(NodeStep /\ body.np.pal # -1) =>
          IF body'.np.pal = body.np.pal
          THEN SelectsEmitted <= 1
          ELSE SelectsEmitted = 1]_vars

(* C3 amended: when ncolors # 2 or keycolor = -1, a tile of the previous    *)
(* tile's colour gets no palette select and a tile of another colour gets   *)
(* exactly one; when ncolors = 2 and keycolor # -1 no tile gets one.        *)
C3_Reselect ==
    [][(NodeStep /\ body.np.pal # -1) =>
          /\ Extends(buffer, buffer')
          /\ IF (body.ncolors # 2 \/ body.keycolor = -1)
                /\ body'.np.pal # body.np.pal
             THEN SelectsEmitted = 1
             ELSE SelectsEmitted = 0]_vars

\* two colours with key colour 2: the tiles of colour 0 and of colour 1 were
\* put and the stream holds no palette select
C3_Witness ==
    /\ pc = "done" /\ result = "Ok"
    /\ body.ncolors = 2 /\ body.keycolor = 2
    /\ body.width = 2 /\ body.height = 1
    /\ body.pixels.data[0] = 0 /\ body.pixels.data[1] = 1
    /\ body.np.pal = 1
    /\ CountOf(buffer, 35) = 0

---------------------------------------------------------------------------
(* encode_highcolor: images within and beyond the palette slots 0..254      *)

HighcolorEntered == hc.op = "encode_highcolor"

HighcolorDone == HighcolorEntered /\ pc = "done"

(* C4 as stated: when encode_highcolor has finished an image of more than   *)
(* 255 distinct 15-bit colours, it has gone through at least one rewind (a  *)
(* dirty flush after which the pixel cursor moved back and a new pass       *)
(* began), whatever the height of the image.                                *)
C4_OverflowRewinds ==
    (HighcolorDone /\ result = "Ok" /\ DistinctColours(args) > 255)
        => hc.rewinds >= 1

\* whether one of the first len elements of the index buffer is 255
HoldsSentinel(buf, len) ==
    CASE buf.kind = "explicit" -> \E k \in DOMAIN buf.data : buf.data[k] = 255
      [] buf.kind = "uniform" -> buf.value = 255
      [] OTHER -> buf.m > 255 /\ len > 255

\* the calls on the output of a run that flushed the whole image once
SingleFlush ==
    << [call |-> "encode_header", width |-> args.width, height |-> args.height],
       [call |-> "encode_body", first |-> 0, rows |-> args.height, res |-> "Ok"],
       [call |-> "encode_footer"] >>

(* C5: for an image of at most 255 distinct 15-bit colours encode_highcolor *)
(* never sets the dirty flag, never rewinds, never writes the sentinel 255  *)
(* into the index buffer and never flushes inside the pass loop; when it    *)
(* has finished it has made one encode_body call, which covers the rows     *)
(* 0..height-1, so every six-row band was emitted in exactly one flush.     *)
C5_FittingImage ==
    (HighcolorEntered /\ DistinctColours(args) <= 255) =>
        /\ ~hc.dirty
        /\ hc.rewinds = 0
        /\ ~hc.wrote_255
        /\ ~HoldsSentinel(hc.paletted_pixels, args.width * args.height)
        /\ hc.output_count = 0
        /\ pc # "hc_flush"
        /\ pc = "done" => (result = "Ok" /\ hc.calls = SingleFlush)

\* an image of two bands and exactly 255 colours was encoded: the slot 254
\* is taken and the single flush was made
C5_Witness ==
    /\ HighcolorDone /\ result = "Ok"
    /\ DistinctColours(args) = 255
    /\ args.height = 7
    /\ hc.nextpal = 255
    /\ hc.calls = SingleFlush

(* C6 as stated: encode_highcolor terminates for every image: the pass loop *)
(* reaches the end of the call, so no pass begins with the cursor, rows     *)
(* left, tables and palette that an earlier pass of the call began with     *)
(* (the loop has no other input, and from such a pass on it would repeat    *)
(* the same passes, restarting at the same row, without end).               *)
C6_NoPassRecurs == HighcolorEntered => ~hc.recurred

---------------------------------------------------------------------------
(* encode: the errors and the start of the stream                           *)

\* width * (height - 1) fits the signed 32-bit range and width * height
\* does not, stated with quotients that stay within the range
OverflowsAtLastRow(a) ==
    /\ a.width >= 1 /\ a.height >= 1
    /\ a.height - 1 <= I32_MAX \div a.width
    /\ a.height > I32_MAX \div a.width

(* C7 as stated: when width * (height - 1) fits the signed 32-bit range and *)
(* width * height exceeds it, encode returns BadIntegerOverflow and at that *)
(* moment no byte was written to the sink or appended to the buffer.        *)
C7_OverflowBeforeOutput ==
    (pc = "done" /\ OverflowsAtLastRow(args)) =>
        /\ result = "BadIntegerOverflow"
        /\ sink = <<>>
        /\ buffer = <<>>

(* C8 as stated: with width >= 1 and height >= 1 and an empty palette       *)
(* encode returns BadArgument, in every quality mode.                       *)
C8_EmptyPaletteRejected ==
    (pc = "done" /\ args.width >= 1 /\ args.height >= 1
        /\ args.dither.palette = <<>>)
        => result = "BadArgument"

(* C9: encode called with width < 1 or height < 1 returns BadInput, in      *)
(* every quality mode, and leaves the encoder as it was: nothing is         *)
(* appended to the buffer or written to the sink and neither encode_dither  *)
(* nor encode_highcolor is entered.                                         *)
C9_BadInputUntouched ==
    [][(pc = "encode" /\ (args.width < 1 \/ args.height < 1)) =>
          /\ pc' = "done"
          /\ result' = "BadInput"
          /\ UNCHANGED <<ctxVars, nodes, body, hc>>]_vars

\* a call with a good width and a height below 1 returned BadInput and
\* nothing was put
C9_Witness ==
    /\ pc = "done" /\ result = "BadInput"
    /\ args.width >= 1 /\ args.height < 1
    /\ buffer = <<>> /\ sink = <<>>
    /\ body.op = "none" /\ hc.op = "none"

\* the bytes written to the sink, in the order of the writes
RECURSIVE Stream(_)
Stream(writes) ==
    IF writes = <<>> THEN <<>> ELSE Head(writes) \o Stream(Tail(writes))

\* the start of the envelope: ESC P in 7-bit mode, the C1 control DCS in
\* 8-bit mode
EnvelopeStart == IF has_8bit_control THEN <<144>> ELSE <<27, 80>>

\* '"' 1 ; 1 ; width ; height
RasterAttributes(width, height) ==
    <<CharQuote, 49, CharSemi, 49, CharSemi>> \o FormatNat(width)
        \o <<CharSemi>> \o FormatNat(height)

(* C10 as stated: the stream of an encode call with width, height >= 1 and  *)
(* a palette begins with the envelope start unless the envelope is skipped, *)
(* then holds the introducer and the raster attributes "1;1;width;height    *)
(* of the call, and holds the header once, before any body data.            *)
C10_StreamStart ==
    (pc = "done" /\ result = "Ok") =>
        LET start == (IF skip_dcs_envelope THEN <<>> ELSE EnvelopeStart)
                        \o <<CharQ>> \o RasterAttributes(args.width, args.height)
            stream == Stream(sink)
        IN /\ Extends(start, stream)
           /\ CountOf(stream, CharQuote) = 1

---------------------------------------------------------------------------
(* encode_body: the directives between the bands                            *)

\* an encode_body call has returned Ok
BodyReturnedOk == body.op = "encode_body" /\ pc = "done" /\ result = "Ok"

(* C11 as stated: an encode_body call on an image of B = ceil(height / 6)   *)
(* bands emits exactly B - 1 next-line directives '-', for every height     *)
(* >= 1: none before the first band and none after the last.                *)
C11_NextLineBetweenBands ==
    BodyReturnedOk =>
        CountOf(Stream(sink) \o buffer, CharMinus) = CeilDiv(body.height, 6) - 1

---------------------------------------------------------------------------
(* encode: what follows a step that failed                                  *)

\* the i-th call encode_highcolor made on the output returned a failure
StepFailed(i) ==
    hc.calls[i].call = "encode_body" /\ hc.calls[i].res # "Ok"

(* C12 as stated: encode is fail-fast.  When a step of a high-colour encode *)
(* returns a failure, the body flush after the pass loop included, no call  *)
(* on the output follows it and encode returns that failure.                *)
C12_FailFast ==
    (HighcolorDone /\ result # "Panic") =>
        \A i \in 1..Len(hc.calls) :
            StepFailed(i) => (i = Len(hc.calls) /\ result = hc.calls[i].res)

---------------------------------------------------------------------------
(* The packets of multiplexer penetration                                   *)

\* the writes i, i + 1, i + 2 to the sink are one packet: the envelope
\* start, a payload and the envelope end, SCREEN_PACKET_SIZE bytes at most
IsPacketAt(i) ==
    /\ i + 2 <= Len(sink)
    /\ sink[i] = DCS_START_7BIT
    /\ Len(sink[i + 1]) >= 1
    /\ Len(sink[i + 1]) <= SCREEN_PACKET_SIZE - Len(DCS_START_7BIT) - Len(DCS_END_7BIT)
    /\ sink[i + 2] = DCS_END_7BIT

\* the write i is the string terminator encode_footer writes after penetrate
IsFooterTerminator(i) ==
    i = Len(sink) /\ pc = "done" /\ ~panicked /\ sink[i] = <<27, 92>>

(* C13 as stated: with multiplexer penetration every packet penetrate       *)
(* writes is the envelope start, a payload and the envelope end, at most    *)
(* 256 bytes in all (a payload of at most 252 bytes), from advance and      *)
(* from encode_footer: the writes to the sink are such packets one after    *)
(* the other, followed only by the terminator of encode_footer.             *)
C13_PenetratePackets ==
    penetrate_multiplexer =>
        \A i \in 1..Len(sink) :
            (i % 3 = 1 /\ ~IsFooterTerminator(i)) => IsPacketAt(i)

---------------------------------------------------------------------------
(* The bound of the packet buffer                                           *)

\* no append to the packet buffer is waiting for its call of advance
AfterAdvance == args.op = "packets" /\ pc # "advance"

(* C14 as stated: the buffer is bounded whatever the image.  After every    *)
(* call of advance the buffer holds fewer than PACKET_SIZE bytes.           *)
C14_BufferBounded == AfterAdvance => Len(buffer) < PACKET_SIZE

(* The second part of C14: without multiplexer penetration a write made by  *)
(* advance is the first PACKET_SIZE buffered bytes, which leave the buffer. *)
C14_AdvanceWritesPacket ==
    [][(pc = "advance" /\ ~penetrate_multiplexer) =>
          IF Len(buffer) >= PACKET_SIZE
          THEN /\ sink' = Append(sink, SubSeq(buffer, 1, PACKET_SIZE))
               /\ buffer' = SubSeq(buffer, PACKET_SIZE + 1, Len(buffer))
          ELSE sink' = sink /\ buffer' = buffer]_vars

\* C14 where advance returns
C14_BoundedOnReturn == (AfterAdvance /\ ~panicked) => Len(buffer) < PACKET_SIZE

---------------------------------------------------------------------------
(* encode_body: two colours with a key colour                               *)

(* C15: for an image encoded with ncolors = 2 and a key colour set          *)
(* (keycolor # -1) no palette select and no palette definition, that is no  *)
(* '#', is anywhere in what encode_body emits.                              *)
C15_NoPaletteDirective ==
    (body.op = "encode_body" /\ body.ncolors = 2 /\ body.keycolor # -1) =>
        CountOf(Stream(sink) \o buffer, CharHash) = 0

\* encode_body returned Ok for two colours with key colour 1 and the palette
\* wanted (bodyonly = FALSE), after the tile of colour 0 was put
C15_Witness ==
    /\ BodyReturnedOk
    /\ body.ncolors = 2 /\ body.keycolor = 1 /\ ~body.bodyonly
    /\ body.np.pal = 0
    /\ buffer # <<>>
    /\ CountOf(buffer, CharHash) = 0

---------------------------------------------------------------------------
(* The run-length encoder without the repeat limit, its data characters,    *)
(* and the polarity of the flag                                             *)

DataChars == 63..126

\* every token of the stream is a well-formed one whose character is a data
\* character
DataCharsOnly(toks) ==
    \A k \in 1..Len(toks) : toks[k] # BadTok /\ toks[k].ch \in DataChars

(* C17: every data character the run-length encoder emits is in '?'..'~':   *)
(* put_pixel maps a code 0..63 to code + '?' and a code above 63 to '?',    *)
(* and after any calls of put_pixel and put_flash the saved run character   *)
(* is 0 with run length 0, or is in 63..126.                                *)
C17_DataCharacters ==
    (pc = "rle") =>
        /\ DataCharsOnly(ParseRuns(buffer))
        /\ \/ save_pixel = 0 /\ save_count = 0
           \/ save_pixel \in DataChars /\ save_count >= 1
        /\ (args.op = "put_pixel") =>
               save_pixel = IF args.pix > 63 THEN 63 ELSE args.pix + 63

\* put_pixel(255) was called while a run of '~' was in progress: the run was
\* flushed and the run of '?' began
C17_Witness ==
    /\ pc = "rle"
    /\ args.op = "put_pixel" /\ args.pix = 255
    /\ save_pixel = 63 /\ save_count = 1
    /\ buffer = <<126>>

\* the law the documentation of the flag gives a flushed run of n
DocumentedLaw(flag, n, ch, toks) ==
    IF flag THEN toks = ShortRunLaw(n, ch)
    ELSE \A k \in 1..Len(toks) : toks[k].rep => toks[k].n <= 255

(* C18 as stated: the flag has the documented polarity.  With               *)
(* has_gri_arg_limit = FALSE the argument of a repeat directive is limited  *)
(* to 255, with has_gri_arg_limit = TRUE it is unlimited: a flushed run of  *)
(* n > 3 is one directive '!n c'.                                           *)
C18_DocumentedPolarity ==
    [][FlushStep =>
          /\ Extends(buffer, buffer')
          /\ DocumentedLaw(has_gri_arg_limit, save_count, save_pixel,
                           ParseRuns(Appended(buffer, buffer')))]_vars

---------------------------------------------------------------------------
(* encode_body: the cursor of the tile scheduler                            *)

\* a step of the tile scheduler that calls put_node
PutsNode ==
    /\ pc \in {"body_pop", "body_rescan"}
    /\ pc' = "body_rescan"
    /\ Len(nodes') = Len(nodes) - 1

\* put_node is called for the tile np with the cursor at x, after dollars
\* carriage returns were put
CursorLaw(x, np, dollars) ==
    /\ dollars = IF pc = "body_pop" /\ x > np.sx THEN 1 ELSE 0
    /\ (IF dollars > 0 THEN 0 ELSE x) <= np.sx
    /\ body'.x = np.mx

(* C19: at every call of put_node made by encode_body the cursor x is at    *)
(* or before the start column of the tile.  A carriage return '$', which    *)
(* resets x to 0, is put exactly when the tile taken from the back of the   *)
(* pending tiles starts before the cursor; a tile picked by the rescan      *)
(* starts at or after the cursor; the call leaves the cursor at the end of  *)
(* the tile, so the tiles of one output line do not overlap and are in      *)
(* increasing column order, and no '$' precedes the first tile of a band.   *)
C19_CursorInvariant ==
    [][PutsNode =>
          /\ Extends(buffer, buffer')
          /\ CursorLaw(body.x, body'.np,
                       CountOf(Appended(buffer, buffer'), CharDollar))]_vars

\* a tile that starts at column 0 was put after a carriage return, the
\* cursor having been past its start
C19_Witness ==
    /\ body.op = "encode_body" /\ pc = "body_rescan"
    /\ ~body.palstate
    /\ CountOf(buffer, CharDollar) = 1
    /\ body.np.sx = 0
    /\ body.x = body.np.mx

---------------------------------------------------------------------------
(* encode_highcolor: the palette entries a body flush defines               *)

\* the stream s holds a palette definition '#' n ';' ... of the entry n
DefinesAt(s, k, digits) ==
    /\ s[k] = CharHash
    /\ k + Len(digits) + 1 <= Len(s)
    /\ SubSeq(s, k + 1, k + Len(digits)) = digits
    /\ s[k + Len(digits) + 1] = CharSemi

Defines(s, n) == \E k \in 1..Len(s) : DefinesAt(s, k, FormatNat(n))

\* encode_highcolor returned Ok after its only body flush, the one after the
\* pass loop, and its bytes were followed
FlushedOnce ==
    /\ HighcolorDone /\ result = "Ok"
    /\ hc.emit = "bytes" /\ hc.output_count = 0

(* C20 as stated: a high-colour body flush defines only the palette entries *)
(* whose state is newly assigned in this pass (PALETTE_CHANGE); an entry    *)
(* that is unchanged is not defined again.                                  *)
C20_OnlyNewEntriesDefined ==
    FlushedOnce =>
        \A n \in 0..(hc.ncolors - 1) :
            Defines(Stream(sink) \o buffer, n) => hc.palstate[n] = PALETTE_CHANGE

---------------------------------------------------------------------------
(* Replaying a sixel body: the canvas is the set of the painted pixels      *)
(* <<x, y, colour>>; '#' Pc selects a colour (with parameters it defines it *)
(* too), '$' returns to column 0, '-' goes to the next line of six rows, a  *)
(* data character paints the rows of its set bits in the current column     *)
(* and '!' Pn repeats the data character that follows.                      *)

NewReplay == [line |-> 0, col |-> 0, colour |-> 0, canvas |-> {}]

\* the rows a data character paints in its line
RowsOf(ch) == {r \in 0..5 : ((ch - 63) \div (2 ^ r)) % 2 = 1}

\* the pixels n repetitions of the data character ch cover
Covered(st, n, ch) ==
    {<<st.col + k, 6 * st.line + r>> : k \in 0..(n - 1), r \in RowsOf(ch)}

Painted(st, n, ch) ==
    [st EXCEPT
       !.canvas = {p \in @ : <<p[1], p[2]>> \notin Covered(st, n, ch)}
                  \cup {<<q[1], q[2], st.colour>> : q \in Covered(st, n, ch)},
       !.col = @ + n]

\* the parameters that follow Pc in a colour definition
RECURSIVE LeadingParams(_)
LeadingParams(s) ==
    IF s # <<>> /\ (IsDigit(Head(s)) \/ Head(s) = CharSemi)
    THEN 1 + LeadingParams(Tail(s)) ELSE 0

RECURSIVE Replay(_, _)
\* '#' followed by k digits
ReplayColour(s, st, k) ==
    Replay(SubSeq(s, k + 2 + LeadingParams(SubSeq(s, k + 2, Len(s))), Len(s)),
           [st EXCEPT !.colour = DecimalValue(SubSeq(s, 2, k + 1))])

\* '!' followed by k digits and a data character
ReplayRepeat(s, st, k) ==
    IF k = 0 \/ Len(s) < k + 2 THEN st
    ELSE Replay(SubSeq(s, k + 3, Len(s)),
                Painted(st, DecimalValue(SubSeq(s, 2, k + 1)), s[k + 2]))

Replay(s, st) ==
    IF s = <<>> THEN st
    ELSE IF Head(s) = CharHash THEN ReplayColour(s, st, LeadingDigits(Tail(s)))
    ELSE IF Head(s) = CharBang THEN ReplayRepeat(s, st, LeadingDigits(Tail(s)))
    ELSE IF Head(s) = CharDollar THEN Replay(Tail(s), [st EXCEPT !.col = 0])
    ELSE IF Head(s) = CharMinus
    THEN Replay(Tail(s), [st EXCEPT !.col = 0, !.line = @ + 1])
    ELSE IF Head(s) \in 63..126 THEN Replay(Tail(s), Painted(st, 1, Head(s)))
    ELSE Replay(Tail(s), st)

\* the picture of the index buffer given to encode_body, dy rows down
Picture(b, dy) ==
    {<<x, y + dy, PixAt(b.pixels, y * b.width + x)>> :
        x \in 0..(b.width - 1), y \in 0..(b.height - 1)}

\* encode_body returned Ok with a policy other than Size, no key colour and
\* every index below ncolors
DirectPathReturned ==
    /\ BodyReturnedOk
    /\ encode_policy # "Size"
    /\ body.keycolor = -1
    /\ \A k \in 0..(body.width * body.height - 1) :
           PixAt(body.pixels, k) < body.ncolors

(* C21 as stated: with a policy other than Size, keycolor = -1 and every    *)
(* index below ncolors, replaying the body that encode_body emitted paints  *)
(* pixel (x, 6b + r) with colour c if and only if the index buffer holds c  *)
(* there.                                                                   *)
C21_ReplayIsPicture ==
    DirectPathReturned =>
        Replay(Stream(sink) \o buffer, NewReplay).canvas = Picture(body, 0)

\* the same replay paints the picture of an image of fewer than six rows
\* six rows down
C21_ReplaySixRowsDown ==
    (DirectPathReturned /\ body.height < 6) =>
        Replay(Stream(sink) \o buffer, NewReplay).canvas = Picture(body, 6)

---------------------------------------------------------------------------
(* encode_highcolor: what has been emitted when it is done                  *)

(* C22 as stated: when encode_highcolor is done every pixel of the image    *)
(* has been emitted in some body flush with a palette slot in 0..254: a     *)
(* band that was flushed dirty is reprocessed, also when it is the last     *)
(* band of the image.                                                       *)
C22_EveryPixelResolved ==
    (HighcolorDone /\ result = "Ok") =>
        hc.resolved = 0..(args.width * args.height - 1)

---------------------------------------------------------------------------
(* encode_highcolor: the slots the pixels of a pass refer to                *)

\* the 15-bit colour the palette holds in a slot
SlotColour(h, slot) ==
    Quant15(h.palette[3 * slot + 1], h.palette[3 * slot + 2], h.palette[3 * slot + 3])

\* the 15-bit colour of the image pixel that the element k of the index
\* buffer stands for in the pass in progress
PassPixelColour(h, k) ==
    Quant15(PixAt(h.pixels, h.px_idx - 3 * h.dst + 3 * k),
            PixAt(h.pixels, h.px_idx - 3 * h.dst + 3 * k + 1),
            PixAt(h.pixels, h.px_idx - 3 * h.dst + 3 * k + 2))

\* the elements of the index buffer written in the pass; in a pattern
\* buffer of period m the elements k and k + m hold the same slot and stand
\* for pixels of the same colour, so the first m stand for all
PassElements(h) ==
    IF h.paletted_pixels.kind = "explicit" THEN 0..(h.dst - 1)
    ELSE 0..(Min(h.dst, h.pixels.m) - 1)

\* a pass is in progress or has come to its flush
InPass == HighcolorEntered /\ pc \in {"hc_row", "hc_flush", "hc_final"}

(* C23 as stated: within a pass a slot that a pixel of the pass refers to   *)
(* is not reassigned to another colour before the flush, so every resolved  *)
(* pixel's slot holds the colour the pixel was quantized to.                *)
C23_SlotsKeepColour ==
    (InPass /\ ~hc.panicked) =>
        \A k \in PassElements(hc) :
            PixAt(hc.paletted_pixels, k) # 255 =>
                SlotColour(hc, PixAt(hc.paletted_pixels, k)) = PassPixelColour(hc, k)

(***************************************************************************)
(* C24: the rewind of encode_highcolor                                     *)
(***************************************************************************)

\* the rows of a pass are being processed
PassRunning == HighcolorEntered /\ pc = "hc_row" /\ ~hc.panicked

\* the pass stands at its first row, nothing of it processed yet
PassStarting == PassRunning /\ hc.y = 0 /\ hc.dst = 0

\* the pixel cursor stands at the first column of a row
CursorOnRow(h) == h.px_idx % (3 * h.width) = 0

\* the flush of this step rewinds and a further pass follows
Rewinds ==
    /\ pc = "hc_flush" /\ pc' = "hc_pass"
    /\ hc'.is_running /\ ~hc'.panicked

\* C24: at the start of every pass the start row plus the remaining height is
\* the height of the image and the start row is not negative; the pixel
\* cursor stays within the pixel buffer and the index buffer is not written
\* past width * height; a rewind puts the pixel cursor six rows before the
\* row at which the flushed pass stopped
C24_RewindInvariant ==
    /\ [](PassStarting =>
            /\ CursorOnRow(hc)
            /\ PassFirstRow(hc) >= 0
            /\ PassFirstRow(hc) + hc.height = args.height)
    /\ [](PassRunning =>
            /\ hc.px_idx >= 0
            /\ hc.px_idx <= 3 * args.width * args.height
            /\ hc.dst <= args.width * args.height)
    /\ [][Rewinds =>
            /\ hc'.px_idx = hc.px_idx - 6 * hc.width * 3
            /\ hc'.px_idx \div (3 * hc.width) = PassFirstRow(hc) + hc.y - 6
            /\ hc'.px_idx >= 0]_vars

\* C24 witness: a pass that follows a rewind starts below the first row of
\* the image
C24_Witness == PassStarting /\ hc.rewinds >= 1 /\ PassFirstRow(hc) > 0

(***************************************************************************)
(* C25: the passes of encode_highcolor are emitted once                    *)
(***************************************************************************)

\* the i-th recorded call is an encode_body
IsBodyCall(h, i) == h.calls[i].call = "encode_body"

\* the i-th recorded call is an encode_body whose rows reach the last row of
\* the image
CoversFinalRow(h, i) ==
    IsBodyCall(h, i) /\ h.calls[i].first + h.calls[i].rows >= args.height

\* C25: once a body that covers the final row of the image has been emitted,
\* no further body is emitted
C25_PassEmittedOnce ==
    HighcolorEntered =>
        \A i \in DOMAIN hc.calls : \A j \in DOMAIN hc.calls :
            (i < j /\ CoversFinalRow(hc, i)) => ~IsBodyCall(hc, j)

(***************************************************************************)
(* C26: put_node and the key colour                                        *)
(***************************************************************************)

\* the number of data codes that the tokens stand for, repeats expanded
RECURSIVE DataCodes(_)
DataCodes(toks) ==
    IF toks = <<>> THEN 0
    ELSE (IF Head(toks).ch \in DataChars THEN Head(toks).n ELSE 0)
         + DataCodes(Tail(toks))

\* the column at which the output line stands when put_node is called: 0
\* after a carriage return, else the cursor
LineColumn(x, appended) == IF CountOf(appended, CharDollar) > 0 THEN 0 ELSE x

\* C26: with a key colour k, 0 <= k < ncolors and ncolors # 2, every call of
\* put_node emits as many data codes as it moves the cursor, so that the
\* number of data codes on the current output line equals the cursor x
C26_ColumnsAligned ==
    [][(PutsNode /\ body.ncolors # 2
                 /\ body.keycolor >= 0 /\ body.keycolor < body.ncolors) =>
          /\ Extends(buffer, buffer')
          /\ DataCodes(ParseRuns(Appended(buffer, buffer')))
                 = body'.x - LineColumn(body.x, Appended(buffer, buffer'))]_vars

(***************************************************************************)
(* C27: what penetration delivers                                          *)
(***************************************************************************)

\* the payloads of the packets among the writes: of every three writes the
\* second, one after the other
RECURSIVE Payloads(_)
Payloads(writes) ==
    IF Len(writes) < 2 THEN <<>>
    ELSE writes[2] \o Payloads(SubSeq(writes, 4, Len(writes)))

\* C27: with multiplexer penetration a call of advance delivers as payloads
\* exactly the bytes it takes from the front of the buffer, in order and
\* once, and encode_footer delivers as payloads all the bytes the buffer
\* holds, followed by what it appends itself; neither call fails
C27_DeliveredOnce ==
    [][(args.op = "packets" /\ penetrate_multiplexer /\ ~panicked) =>
          /\ ~panicked'
          /\ pc = "advance" =>
                 Payloads(Appended(sink, sink')) \o buffer' = buffer
          /\ (pc = "put" /\ pc' = "done") =>
                 Extends(buffer, Payloads(Appended(sink, sink')))]_vars

(***************************************************************************)
(* C28: the run-length encoder read back                                   *)
(***************************************************************************)

\* the characters the tokens stand for: a literal is itself, a repeat
\* directive '!n c' is n times c
RunOf(ch, n) == [k \in 1..n |-> ch]

RECURSIVE Expand(_)
Expand(toks) ==
    IF toks = <<>> THEN <<>>
    ELSE RunOf(Head(toks).ch, Head(toks).n) \o Expand(Tail(toks))

\* what the encoder holds of the codes put so far: the emitted stream
\* expanded, followed by the run in progress
Pending(buf, pixel, count) == Expand(ParseRuns(buf)) \o RunOf(pixel, count)

\* the offset code put_pixel is to put for pix: '?' + pix, and '?' for a
\* pix above 63
CodeOf(pix) == IF pix > 63 THEN CharQuestion ELSE CharQuestion + pix

(* C28: put_pixel adds its offset code, and nothing else, at the end of     *)
(* what the emitted stream expands to together with the run in progress;    *)
(* put_flash leaves that sequence as it is and the run length 0.  So for    *)
(* any sequence of put_pixel calls ended by put_flash, with the repeat      *)
(* limit enabled or disabled, expanding the literals and the '!n c' of the  *)
(* stream yields the offset codes put, in order and number.                 *)
C28_RoundTrip ==
    [][/\ args'.op = "put_pixel" =>
              Pending(buffer', save_pixel', save_count')
                  = Append(Pending(buffer, save_pixel, save_count),
                           CodeOf(args'.pix))
       /\ args'.op = "put_flash" =>
              /\ save_count' = 0
              /\ Expand(ParseRuns(buffer'))
                     = Pending(buffer, save_pixel, save_count)]_vars

\* C28 witness: put_flash has emitted a run of more than 255 with the repeat
\* limit enabled, the stream holding more than one repeat directive
C28_Witness ==
    /\ pc = "rle" /\ args.op = "put_flash"
    /\ has_gri_arg_limit
    /\ save_count = 0
    /\ CountOf(buffer, CharBang) > 1
    /\ Len(Expand(ParseRuns(buffer))) > 255

(***************************************************************************)
(* C29: the slots encode_highcolor assigns                                 *)
(***************************************************************************)

\* the slot n is rejected by the search at the threshold t
Rejected(h, n, t) == h.palstate[n] # 0 \/ h.palhitcount[n] > t

\* the colour of the k-th pixel of the pass has no slot in the hit table
Unresolved(h, k) == PassPixelColour(h, k) \notin h.rgbhit

=======================================================================
